---- MODULE Spec2Model ----
(***************************************************************************)
(* song_painter: stroke history, canvas rasterizer and audio synthesizer.  *)
(*                                                                         *)
(* The repository holds two front ends that are never linked together:     *)
(*   - the "paint" program: main.rs driving paint.rs (Canvas), and         *)
(*   - the "timeline" program: timeline.rs (Timeline, RecordSystem,        *)
(*     ToneSystem, PlayerSource).                                          *)
(* The variable `program` says which of the two is running; the object of  *)
(* the other one keeps its freshly constructed value.                      *)
(*                                                                         *)
(* Numbers.  f32 coordinates are modelled as integers counting 1/Den, so   *)
(* the point (k, m) is (k/Den, m/Den).  With Den a power of two and the    *)
(* small sizes used here every product and comparison of the code is exact *)
(* in f32, so integer arithmetic computes what the code computes.          *)
(***************************************************************************)
EXTENDS Integers, Sequences, FiniteSets, TLC

(* ------------------------------ bounds --------------------------------- *)

\* one coordinate unit is 1/Den
Den == 4

\* strokes held in history and the redo stack together
MaxStrokes == 2

\* line / add_line calls made in one run
MaxLines == 2

\* the longest time the playback timers measure, in sample periods
\* (1 / SAMPLE_RATE seconds); a longer time reads as MaxTime
MaxTime == 3

(* --------------------------- small helpers ----------------------------- *)

Max(a, b) == IF a >= b THEN a ELSE b

Min(a, b) == IF a <= b THEN a ELSE b

Abs(a) == IF a < 0 THEN -a ELSE a

Signum(a) == IF a > 0 THEN 1 ELSE IF a < 0 THEN -1 ELSE 0

Last(s) == s[Len(s)]

Front(s) == SubSeq(s, 1, Len(s) - 1)

RECURSIVE Flatten(_)
\* history.iter().flatten(): the lines of all strokes, in order
Flatten(h) == IF h = <<>> THEN <<>> ELSE Head(h) \o Flatten(Tail(h))

\* f32::INFINITY: larger than every coordinate of the model
INFINITY == 1000000

Point2(x, y) == [x |-> x, y |-> y]

Line(start, end) == [start |-> start, end |-> end]

\* the pointer positions the front ends hand to the history: inside the
\* canvas, on its right edge (x = 1.0) and left of it (x < 0).  Both front
\* ends call line / add_line only after the pointer has moved (main.rs:174,
\* timeline.rs:121-148), so the two points of a call differ
Coords == { <<0, 0>>, <<1, 2>>, <<3, 1>>, <<Den, 3>>, <<-1, 1>> }

Points == { Point2(c[1], c[2]) : c \in Coords }

\* the pointer moves (from, to) between different positions of a set
Moves(points) == { m \in points \X points : m[1] # m[2] }

\* the pointer moves of the runs that also play the song: two forward moves
\* at one pitch, the second starting later, and a backward move that rises
PlayerMoves ==
    { <<Point2(0, 1), Point2(3, 1)>>,
      <<Point2(1, 1), Point2(3, 1)>>,
      <<Point2(3, 1), Point2(1, 2)>> }

\* the window sizes the paint program is resized to
Sizes == { <<Den, Den>>, <<2 * Den, 3>> }

\* Canvas::new(800, 600), scaled
InitialSize == <<Den, Den>>

(* ------------------------- paint.rs: Canvas ---------------------------- *)

\* RecordContext::default()
RecordContext_default == [direction |-> "Undefined", clamp_x |-> 0]

\* vec![0; width * height]
ZeroData(width, height) == [k \in 0 .. (width * height - 1) |-> 0]

\* what the device may hold in a texture of Canvas::new, whose TexImage2D
\* call passes a null pointer: the content is undefined, it can be all zero
\* or anything else
UndefinedTextureData(width, height) ==
    { ZeroData(width, height), [k \in 0 .. (width * height - 1) |-> 255] }

\* Canvas::new: the texture is allocated without content (null pointer);
\* <<>> stands for the content not being looked at
Canvas_new(width, height) ==
    [ width |-> width, height |-> height,
      data |-> ZeroData(width, height),
      texture |-> [width |-> width, height |-> height, data |-> <<>>],
      history |-> <<>>, undo_history |-> <<>>,
      dirty |-> FALSE,
      current_rc |-> RecordContext_default ]

\* Canvas::id
Canvas_id(c, x, y) == y * c.width + x

\* Canvas::update
Canvas_update(c) ==
    IF ~c.dirty THEN c
    ELSE [c EXCEPT !.texture = [width |-> c.width, height |-> c.height, data |-> c.data],
                   !.dirty = FALSE]

\* Canvas::new_record with a fault: the redo stack is not cleared
Canvas_new_record_keep_redo(c) ==
    LET popped == IF c.history # <<>> /\ Last(c.history) = <<>>
                  THEN Front(c.history) ELSE c.history
    IN [c EXCEPT !.history = Append(popped, <<>>),
                 !.current_rc = RecordContext_default]

\* Canvas::new_record with a fault: an empty last stroke is kept
Canvas_new_record_keep_empty(c) ==
    [c EXCEPT !.history = Append(c.history, <<>>),
              !.undo_history = <<>>,
              !.current_rc = RecordContext_default]

\* Canvas::new_record
Canvas_new_record(c) ==
    LET popped == IF c.history # <<>> /\ Last(c.history) = <<>>
                  THEN Front(c.history) ELSE c.history
    IN [c EXCEPT !.history = Append(popped, <<>>),
                 !.undo_history = <<>>,
                 !.current_rc = RecordContext_default]

RECURSIVE Canvas_draw_loop_open(_, _, _, _, _, _, _)
\* the loop of Canvas::draw_line with a fault: the loop is left before the
\* end pixel is set
Canvas_draw_loop_open(k, data, end, x, y, err, fuel) ==
    IF (x = end.x /\ y = end.y) \/ fuel = 0 THEN data
    ELSE LET painted == [data EXCEPT ![Canvas_id(k, x, y)] = 255]
             e2 == 2 * err
             stepx == e2 > -k.dy
             stepy == e2 < k.dx
             err1 == IF stepx THEN err - k.dy ELSE err
             x1 == IF stepx THEN x + k.sx ELSE x
             err2 == IF stepy THEN err1 + k.dx ELSE err1
             y1 == IF stepy THEN y + k.sy ELSE y
         IN Canvas_draw_loop_open(k, painted, end, x1, y1, err2, fuel - 1)

RECURSIVE Canvas_draw_loop(_, _, _, _, _, _, _)
\* the loop of Canvas::draw_line.  k holds the values fixed before the loop
\* (width, dx, dy, sx, sy); fuel bounds the recursion of the model: the walk
\* from start to end takes at most dx + dy steps
Canvas_draw_loop(k, data, end, x, y, err, fuel) ==
    LET painted == [data EXCEPT ![Canvas_id(k, x, y)] = 255]
    IN IF (x = end.x /\ y = end.y) \/ fuel = 0 THEN painted
       ELSE LET e2 == 2 * err
                stepx == e2 > -k.dy
                stepy == e2 < k.dx
                err1 == IF stepx THEN err - k.dy ELSE err
                x1 == IF stepx THEN x + k.sx ELSE x
                err2 == IF stepy THEN err1 + k.dx ELSE err1
                y1 == IF stepy THEN y + k.sy ELSE y
            IN Canvas_draw_loop(k, painted, end, x1, y1, err2, fuel - 1)

RECURSIVE Canvas_draw_walk(_, _, _, _, _, _)
\* the pixels the loop of Canvas::draw_line visits, in order, for at most
\* fuel steps: the walk ends with the pixel at which the loop breaks, or,
\* when the fuel runs out first, with a pixel that is not the end pixel
Canvas_draw_walk(k, end, x, y, err, fuel) ==
    IF (x = end.x /\ y = end.y) \/ fuel = 0 THEN << Point2(x, y) >>
    ELSE LET e2 == 2 * err
             stepx == e2 > -k.dy
             stepy == e2 < k.dx
             err1 == IF stepx THEN err - k.dy ELSE err
             x1 == IF stepx THEN x + k.sx ELSE x
             err2 == IF stepy THEN err1 + k.dx ELSE err1
             y1 == IF stepy THEN y + k.sy ELSE y
         IN << Point2(x, y) >> \o Canvas_draw_walk(k, end, x1, y1, err2, fuel - 1)

\* the values draw_line fixes before the loop for a start and an end pixel
Canvas_draw_setup(width, start, end) ==
    [width |-> width,
     dx |-> Abs(end.x - start.x), dy |-> Abs(end.y - start.y),
     sx |-> Signum(end.x - start.x), sy |-> Signum(end.y - start.y)]

\* the pixel draw_line computes for a point on a bitmap of the given size
Canvas_pixel(p, width, height) == Point2((p.x * width) \div Den, (p.y * height) \div Den)

\* Canvas::draw_line with a fault: a line that only ends outside the canvas
\* is clipped to its start pixel
Canvas_draw_line_clip(c, line) ==
    IF line.start.x < 0 \/ line.start.y < 0 \/ line.start.x >= Den \/ line.start.y >= Den THEN c
    ELSE LET start == Point2((line.start.x * c.width) \div Den, (line.start.y * c.height) \div Den)
             inside == line.end.x >= 0 /\ line.end.y >= 0 /\ line.end.x < Den /\ line.end.y < Den
             end == IF inside
                    THEN Point2((line.end.x * c.width) \div Den, (line.end.y * c.height) \div Den)
                    ELSE start
             dx == Abs(end.x - start.x)
             dy == Abs(end.y - start.y)
             sx == Signum(end.x - start.x)
             sy == Signum(end.y - start.y)
             k == [width |-> c.width, dx |-> dx, dy |-> dy, sx |-> sx, sy |-> sy]
         IN [c EXCEPT !.data = Canvas_draw_loop(k, c.data, end, start.x, start.y, dx - dy, dx + dy),
                      !.dirty = TRUE]

\* Canvas::draw_line with a fault: the bitmap is written but not marked for
\* upload
Canvas_draw_line_clean(c, line) ==
    IF line.start.x < 0 \/ line.start.y < 0 \/ line.end.x < 0 \/ line.end.y < 0 THEN c
    ELSE IF line.start.x >= Den \/ line.start.y >= Den \/ line.end.x >= Den \/ line.end.y >= Den THEN c
    ELSE LET start == Canvas_pixel(line.start, c.width, c.height)
             end == Canvas_pixel(line.end, c.width, c.height)
             k == Canvas_draw_setup(c.width, start, end)
         IN [c EXCEPT !.data = Canvas_draw_loop(k, c.data, end, start.x, start.y, k.dx - k.dy, k.dx + k.dy)]

\* Canvas::draw_line
Canvas_draw_line(c, line) ==
    IF line.start.x < 0 \/ line.start.y < 0 \/ line.end.x < 0 \/ line.end.y < 0 THEN c
    ELSE IF line.start.x >= Den \/ line.start.y >= Den \/ line.end.x >= Den \/ line.end.y >= Den THEN c
    ELSE LET start == Point2((line.start.x * c.width) \div Den, (line.start.y * c.height) \div Den)
             end == Point2((line.end.x * c.width) \div Den, (line.end.y * c.height) \div Den)
             dx == Abs(end.x - start.x)
             dy == Abs(end.y - start.y)
             sx == Signum(end.x - start.x)
             sy == Signum(end.y - start.y)
             k == [width |-> c.width, dx |-> dx, dy |-> dy, sx |-> sx, sy |-> sy]
         IN [c EXCEPT !.data = Canvas_draw_loop(k, c.data, end, start.x, start.y, dx - dy, dx + dy),
                      !.dirty = TRUE]

\* the clamping_func of Canvas::line: f32::max for Right, f32::min otherwise
Canvas_clamping_func(direction, a, b) == IF direction = "Right" THEN Max(a, b) ELSE Min(a, b)

\* Canvas::line
Canvas_line(c, start, end) ==
    LET rc0 == IF c.current_rc.direction = "Undefined"
               THEN IF start.x < end.x
                    THEN [direction |-> "Right", clamp_x |-> 0]
                    ELSE [direction |-> "Left", clamp_x |-> INFINITY]
               ELSE c.current_rc
        line == Line(Point2(Canvas_clamping_func(rc0.direction, start.x, rc0.clamp_x), start.y),
                     Point2(Canvas_clamping_func(rc0.direction, end.x, rc0.clamp_x), end.y))
        drawn == Canvas_draw_line(c, line)
        clamp_x == Canvas_clamping_func(rc0.direction, rc0.clamp_x,
                       Canvas_clamping_func(rc0.direction, line.start.x, line.end.x))
    IN [drawn EXCEPT !.current_rc = [direction |-> rc0.direction, clamp_x |-> clamp_x],
                     !.history = IF c.history = <<>> THEN <<>>
                                 ELSE Append(Front(c.history), Append(Last(c.history), line))]

RECURSIVE Canvas_draw_lines(_, _)
\* for line in lines { self.draw_line(line) }
Canvas_draw_lines(c, lines) ==
    IF lines = <<>> THEN c ELSE Canvas_draw_lines(Canvas_draw_line(c, Head(lines)), Tail(lines))

\* Canvas::resize with a fault: the recording context starts over
Canvas_resize_new_gesture(c, width, height) ==
    Canvas_draw_lines([c EXCEPT !.width = width, !.height = height,
                                !.data = ZeroData(width, height),
                                !.dirty = TRUE,
                                !.current_rc = RecordContext_default],
                      Flatten(c.history))

\* Canvas::resize
Canvas_resize(c, width, height) ==
    Canvas_draw_lines([c EXCEPT !.width = width, !.height = height,
                                !.data = ZeroData(width, height),
                                !.dirty = TRUE],
                      Flatten(c.history))

\* Canvas::undo with a fault: the bitmap is not redrawn
Canvas_undo_no_redraw(c) ==
    IF c.history = <<>> THEN c
    ELSE [c EXCEPT !.history = Front(c.history),
                   !.undo_history = Append(c.undo_history, Last(c.history)),
                   !.dirty = TRUE]

\* Canvas::undo
Canvas_undo(c) ==
    IF c.history = <<>> THEN c
    ELSE Canvas_resize([c EXCEPT !.history = Front(c.history),
                                 !.undo_history = Append(c.undo_history, Last(c.history))],
                       c.width, c.height)

\* Canvas::redo with a fault: takes the stroke from the bottom of the redo stack
Canvas_redo_bottom(c) ==
    IF c.undo_history = <<>> THEN c
    ELSE LET lines == Head(c.undo_history)
             drawn == Canvas_draw_lines([c EXCEPT !.undo_history = Tail(c.undo_history)], lines)
         IN [drawn EXCEPT !.history = Append(c.history, lines)]

\* Canvas::redo
Canvas_redo(c) ==
    IF c.undo_history = <<>> THEN c
    ELSE LET lines == Last(c.undo_history)
             drawn == Canvas_draw_lines([c EXCEPT !.undo_history = Front(c.undo_history)], lines)
         IN [drawn EXCEPT !.history = Append(c.history, lines)]

\* Canvas::get_lines
Canvas_get_lines(c) == c.history

(* ---------------------- timeline.rs: RecordSystem ---------------------- *)

\* Record::default()
Record_default == [direction |-> "Undefined", clamp_x |-> 0]

\* RecordSystem::default()
RecordSystem_default == [history |-> <<>>, undo_history |-> <<>>, current |-> Record_default]

\* ToneSystem::default(): nothing uploaded to the lines mesh yet
ToneSystem_default == [tones_lines_mesh |-> <<>>, dirty |-> FALSE]

\* ToneSystem::mark_dirty
ToneSystem_mark_dirty(ts) == [ts EXCEPT !.dirty = TRUE]

\* RecordSystem::new_record with a fault: an empty last stroke is kept
RecordSystem_new_record_keep_empty(rs) ==
    [rs EXCEPT !.current = Record_default,
               !.undo_history = <<>>,
               !.history = Append(rs.history, <<>>)]

\* RecordSystem::new_record
RecordSystem_new_record(rs) ==
    LET popped == IF rs.history # <<>> /\ Last(rs.history) = <<>>
                  THEN Front(rs.history) ELSE rs.history
    IN [rs EXCEPT !.current = Record_default,
                  !.undo_history = <<>>,
                  !.history = Append(popped, <<>>)]

\* the clamping_func of RecordSystem::add_line
clamping_func(direction, a, b) == IF direction = "Right" THEN Max(a, b) ELSE Min(a, b)

\* RecordSystem::add_line with a fault: clamp_x is not moved to the new line
RecordSystem_add_line_stale_clamp(rs, ts, start, end) ==
    LET cur0 == IF rs.current.direction = "Undefined"
                THEN IF start.x < end.x
                     THEN [direction |-> "Right", clamp_x |-> 0]
                     ELSE [direction |-> "Left", clamp_x |-> INFINITY]
                ELSE rs.current
        line == Line(Point2(clamping_func(cur0.direction, start.x, cur0.clamp_x), start.y),
                     Point2(clamping_func(cur0.direction, end.x, cur0.clamp_x), end.y))
    IN IF rs.history # <<>>
       THEN [record_system |-> [rs EXCEPT !.current = cur0,
                                          !.history = Append(Front(rs.history),
                                                             Append(Last(rs.history), line))],
             tone_system |-> ToneSystem_mark_dirty(ts),
             result |-> <<line>>]
       ELSE [record_system |-> [rs EXCEPT !.current = cur0],
             tone_system |-> ts,
             result |-> <<>>]

\* RecordSystem::add_line with a fault: a move with start.x = end.x counts
\* as a move to the right
RecordSystem_add_line_equal_right(rs, ts, start, end) ==
    LET cur0 == IF rs.current.direction = "Undefined"
                THEN IF start.x <= end.x
                     THEN [direction |-> "Right", clamp_x |-> 0]
                     ELSE [direction |-> "Left", clamp_x |-> INFINITY]
                ELSE rs.current
        line == Line(Point2(clamping_func(cur0.direction, start.x, cur0.clamp_x), start.y),
                     Point2(clamping_func(cur0.direction, end.x, cur0.clamp_x), end.y))
        clamp_x == clamping_func(cur0.direction, cur0.clamp_x,
                       clamping_func(cur0.direction, line.start.x, line.end.x))
        cur1 == [direction |-> cur0.direction, clamp_x |-> clamp_x]
    IN IF rs.history # <<>>
       THEN [record_system |-> [rs EXCEPT !.current = cur1,
                                          !.history = Append(Front(rs.history),
                                                             Append(Last(rs.history), line))],
             tone_system |-> ToneSystem_mark_dirty(ts),
             result |-> <<line>>]
       ELSE [record_system |-> [rs EXCEPT !.current = cur1],
             tone_system |-> ts,
             result |-> <<>>]

\* RecordSystem::add_line: the record system and the tone system after the
\* call, and the returned Option<&Line> (<<>> is None, <<line>> is Some)
RecordSystem_add_line(rs, ts, start, end) ==
    LET cur0 == IF rs.current.direction = "Undefined"
                THEN IF start.x < end.x
                     THEN [direction |-> "Right", clamp_x |-> 0]
                     ELSE [direction |-> "Left", clamp_x |-> INFINITY]
                ELSE rs.current
        line == Line(Point2(clamping_func(cur0.direction, start.x, cur0.clamp_x), start.y),
                     Point2(clamping_func(cur0.direction, end.x, cur0.clamp_x), end.y))
        clamp_x == clamping_func(cur0.direction, cur0.clamp_x,
                       clamping_func(cur0.direction, line.start.x, line.end.x))
        cur1 == [direction |-> cur0.direction, clamp_x |-> clamp_x]
    IN IF rs.history # <<>>
       THEN [record_system |-> [rs EXCEPT !.current = cur1,
                                          !.history = Append(Front(rs.history),
                                                             Append(Last(rs.history), line))],
             tone_system |-> ToneSystem_mark_dirty(ts),
             result |-> <<line>>]
       ELSE [record_system |-> [rs EXCEPT !.current = cur1],
             tone_system |-> ts,
             result |-> <<>>]

\* RecordSystem::undo with a fault: the popped stroke is not pushed on the redo stack
RecordSystem_undo_drop(rs, ts) ==
    IF rs.history # <<>>
    THEN [record_system |-> [rs EXCEPT !.history = Front(rs.history)],
          tone_system |-> ToneSystem_mark_dirty(ts)]
    ELSE [record_system |-> rs, tone_system |-> ts]

\* RecordSystem::undo with a fault: the lines mesh is not marked for upload
RecordSystem_undo_clean(rs, ts) ==
    IF rs.history # <<>>
    THEN [record_system |-> [rs EXCEPT !.history = Front(rs.history),
                                       !.undo_history = Append(rs.undo_history, Last(rs.history))],
          tone_system |-> ts]
    ELSE [record_system |-> rs, tone_system |-> ts]

\* RecordSystem::undo
RecordSystem_undo(rs, ts) ==
    IF rs.history # <<>>
    THEN [record_system |-> [rs EXCEPT !.history = Front(rs.history),
                                       !.undo_history = Append(rs.undo_history, Last(rs.history))],
          tone_system |-> ToneSystem_mark_dirty(ts)]
    ELSE [record_system |-> rs, tone_system |-> ts]

\* RecordSystem::redo with a fault: the stroke stays on the redo stack
RecordSystem_redo_keep(rs, ts) ==
    IF rs.undo_history # <<>>
    THEN [record_system |-> [rs EXCEPT !.history = Append(rs.history, Last(rs.undo_history))],
          tone_system |-> ToneSystem_mark_dirty(ts)]
    ELSE [record_system |-> rs, tone_system |-> ts]

\* RecordSystem::redo
RecordSystem_redo(rs, ts) ==
    IF rs.undo_history # <<>>
    THEN [record_system |-> [rs EXCEPT !.undo_history = Front(rs.undo_history),
                                       !.history = Append(rs.history, Last(rs.undo_history))],
          tone_system |-> ToneSystem_mark_dirty(ts)]
    ELSE [record_system |-> rs, tone_system |-> ts]

\* ToneSystem::update
ToneSystem_update(ts, rs) ==
    IF ts.dirty THEN [tones_lines_mesh |-> Flatten(rs.history), dirty |-> FALSE] ELSE ts

(* ------------------- timeline.rs: audio synthesizer -------------------- *)

\* samples per second of the model (SAMPLE_RATE is 44100 in the program; the
\* model keeps the arithmetic and scales the rate so envelopes stay short).
\* One unit of x is 60 * SAMPLE_RATE / (player_bpm * Den) = 3/4 of a sample
\* period, so the `as usize` casts do truncate
SAMPLE_RATE == 6

\* Timeline::default(): player_bpm
player_bpm == 120

\* the amplitude of a covered sample, 0.33, in hundredths
AMPLITUDE == 33

\* `v as usize` for a quotient num / den of integers, den > 0: truncation,
\* negative values saturate to 0
AsUsize(num, den) == IF num <= 0 THEN 0 ELSE num \div den

\* Tone { frequency: 0.0, amplitude: 0.0 }.  A frequency is <<>> for 0.0 and
\* <<v>> for 440 * 2^((value + 3) / 12), v being value * PitchScale
SilentTone == [frequency |-> <<>>, amplitude |-> 0]

\* the common denominator of the pitch values of render_audio
PitchScale == 2 * SAMPLE_RATE * player_bpm * Den * Den

\* render_audio, the inner loop over one line, with a fault: take() lacks
\* the + 1
RenderLine_short(samples, line) ==
    LET min == IF line.start.x < line.end.x THEN line.start ELSE line.end
        max == IF line.start.x > line.end.x THEN line.start ELSE line.end
        skip == AsUsize(min.x * 60 * SAMPLE_RATE, player_bpm * Den)
        take == AsUsize((max.x - min.x) * 60 * SAMPLE_RATE, player_bpm * Den)
        value(i) == 2 * SAMPLE_RATE * player_bpm * Den * min.y
                    + 2 * (max.y - min.y) * (i * player_bpm * Den - min.x * 60 * SAMPLE_RATE)
                    + SAMPLE_RATE * player_bpm * Den * Den
    IN [n \in 1 .. Len(samples) |->
          LET i == n - 1
          IN IF i >= skip /\ i < skip + take
             THEN [frequency |-> <<value(i)>>, amplitude |-> AMPLITUDE]
             ELSE samples[n]]

\* render_audio, the inner loop over one line, with a fault: for a line with
\* start.x = end.x, min is the start and max the end of the line
RenderLine_ends_apart(samples, line) ==
    LET min == IF line.start.x <= line.end.x THEN line.start ELSE line.end
        max == IF line.start.x > line.end.x THEN line.start ELSE line.end
        skip == AsUsize(min.x * 60 * SAMPLE_RATE, player_bpm * Den)
        take == AsUsize((max.x - min.x) * 60 * SAMPLE_RATE, player_bpm * Den) + 1
        value(i) == 2 * SAMPLE_RATE * player_bpm * Den * min.y
                    + 2 * (max.y - min.y) * (i * player_bpm * Den - min.x * 60 * SAMPLE_RATE)
                    + SAMPLE_RATE * player_bpm * Den * Den
    IN [n \in 1 .. Len(samples) |->
          LET i == n - 1
          IN IF i >= skip /\ i < skip + take
             THEN [frequency |-> <<value(i)>>, amplitude |-> AMPLITUDE]
             ELSE samples[n]]

\* render_audio: the envelope after the inner loop over one line
\* (.skip(min.x * SAMPLE_RATE).take((max.x - min.x) * SAMPLE_RATE + 1));
\* x / (player_bpm / 60) is x * 60 / player_bpm
RenderLine(samples, line) ==
    LET min == IF line.start.x < line.end.x THEN line.start ELSE line.end
        max == IF line.start.x > line.end.x THEN line.start ELSE line.end
        skip == AsUsize(min.x * 60 * SAMPLE_RATE, player_bpm * Den)
        take == AsUsize((max.x - min.x) * 60 * SAMPLE_RATE, player_bpm * Den) + 1
        value(i) == 2 * SAMPLE_RATE * player_bpm * Den * min.y
                    + 2 * (max.y - min.y) * (i * player_bpm * Den - min.x * 60 * SAMPLE_RATE)
                    + SAMPLE_RATE * player_bpm * Den * Den
    IN [n \in 1 .. Len(samples) |->
          LET i == n - 1
          IN IF i >= skip /\ i < skip + take
             THEN [frequency |-> <<value(i)>>, amplitude |-> AMPLITUDE]
             ELSE samples[n]]

RECURSIVE RenderLines(_, _)
\* render_audio: for line in lines { ... }
RenderLines(samples, lines) ==
    IF lines = <<>> THEN samples ELSE RenderLines(RenderLine(samples, Head(lines)), Tail(lines))

\* ToneSamples::new
ToneSamples_new(samples) == [samples |-> samples, i |-> 0, time |-> <<>>]

\* PlayerSource::new
PlayerSource_new(tones_samples, sample_rate) ==
    [sample_rate |-> sample_rate, tones_samples |-> tones_samples]

\* the largest max(start.x, end.x) of a non-empty sequence of lines
\* (the max_by of render_audio)
MaxX(lines) ==
    LET xs == { Max(lines[n].start.x, lines[n].end.x) : n \in 1 .. Len(lines) }
    IN CHOOSE m \in xs : \A x \in xs : x <= m

\* Timeline::render_audio
Timeline_render_audio(rs) ==
    LET all == Flatten(rs.history)
    IN IF all = <<>> THEN PlayerSource_new(<<>>, SAMPLE_RATE)
       ELSE LET length == AsUsize(MaxX(all) * 60 * SAMPLE_RATE, player_bpm * Den) + 1
                silent == [n \in 1 .. length |-> SilentTone]
            IN PlayerSource_new(
                 [s \in 1 .. Len(rs.history) |->
                     ToneSamples_new(RenderLines(silent, rs.history[s]))],
                 SAMPLE_RATE)

\* ToneSamples::last_amplitude
ToneSamples_last_amplitude(t) == t.samples[t.i + 1].amplitude

\* ToneSamples::next with a fault: at the end of the envelope the cursor goes
\* back to the first entry
ToneSamples_next_rewind(t) ==
    LET tone == t.samples[t.i + 1]
        sample == <<t.time, tone.amplitude>>
    IN IF t.i + 1 >= Len(t.samples)
       THEN [tone_samples |-> [t EXCEPT !.i = 0], result |-> <<>>]
       ELSE [tone_samples |-> [t EXCEPT !.i = t.i + 1, !.time = t.time \o tone.frequency],
             result |-> <<sample>>]

\* ToneSamples::next with a fault: the phase starts over at every entry
ToneSamples_next_restart(t) ==
    LET tone == t.samples[t.i + 1]
        sample == <<t.time, tone.amplitude>>
    IN IF t.i + 1 >= Len(t.samples)
       THEN [tone_samples |-> [t EXCEPT !.i = Len(t.samples) - 1], result |-> <<>>]
       ELSE [tone_samples |-> [t EXCEPT !.i = t.i + 1, !.time = tone.frequency],
             result |-> <<sample>>]

\* ToneSamples::next with a fault: at the end of the envelope the cursor is
\* left one past the last entry
ToneSamples_next_overrun(t) ==
    LET tone == t.samples[t.i + 1]
        sample == <<t.time, tone.amplitude>>
    IN IF t.i + 1 >= Len(t.samples)
       THEN [tone_samples |-> [t EXCEPT !.i = t.i + 1], result |-> <<>>]
       ELSE [tone_samples |-> [t EXCEPT !.i = t.i + 1, !.time = t.time \o tone.frequency],
             result |-> <<sample>>]

\* ToneSamples::next: the producer after the call and the returned Option
\* (<<>> is None).  A sample sin(time) * amplitude is kept as the pair
\* <<time, amplitude>>; time is the sequence of the frequencies added so far
\* (adding 0.0 changes nothing), each standing for 2 * PI * frequency / 44100
ToneSamples_next(t) ==
    LET tone == t.samples[t.i + 1]
        sample == <<t.time, tone.amplitude>>
    IN IF t.i + 1 >= Len(t.samples)
       THEN [tone_samples |-> [t EXCEPT !.i = Len(t.samples) - 1], result |-> <<>>]
       ELSE [tone_samples |-> [t EXCEPT !.i = t.i + 1, !.time = t.time \o tone.frequency],
             result |-> <<sample>>]

RECURSIVE PlayerSource_mix(_, _, _)
\* PlayerSource::next: the loop over tones_samples from index n on; acc holds
\* the producers advanced so far, the samples summed so far, the accumulated
\* amplitude and no_more_samples
PlayerSource_mix(tones, n, acc) ==
    IF n > Len(tones) THEN acc
    ELSE LET r == ToneSamples_next(tones[n])
         IN PlayerSource_mix(tones, n + 1,
              IF r.result # <<>>
              THEN [tones_samples |-> Append(acc.tones_samples, r.tone_samples),
                    sample |-> acc.sample \o r.result,
                    accumulated_amplitude |-> acc.accumulated_amplitude
                                              + ToneSamples_last_amplitude(r.tone_samples),
                    no_more_samples |-> FALSE]
              ELSE [acc EXCEPT !.tones_samples = Append(acc.tones_samples, r.tone_samples)])

\* PlayerSource::next: the source after the call and the returned Option.
\* Some(sample) is <<[sum, divisor]>>: the sum of the samples in sum, divided
\* by sqrt(divisor) when divisor > 0
PlayerSource_next(ps) ==
    LET m == PlayerSource_mix(ps.tones_samples, 1,
                 [tones_samples |-> <<>>, sample |-> <<>>,
                  accumulated_amplitude |-> 0, no_more_samples |-> TRUE])
        source == [ps EXCEPT !.tones_samples = m.tones_samples]
    IN IF m.no_more_samples THEN [source |-> source, result |-> <<>>]
       ELSE [source |-> source,
             result |-> << [sum |-> m.sample, divisor |-> m.accumulated_amplitude] >>]

\* a summed sample is 0.0: every term sin(time) * amplitude has amplitude 0
\* or time 0
IsZeroSample(s) == \A n \in 1 .. Len(s.sum) : s.sum[n][2] = 0 \/ s.sum[n][1] = <<>>

\* PlayerSource::total_duration: None (<<>>) without a sample, otherwise
\* max_samples / sample_rate seconds, which is max_samples sample periods
PlayerSource_total_duration(ps) ==
    LET max_samples == IF ps.tones_samples = <<>> THEN 0
                       ELSE LET ls == { Len(ps.tones_samples[n].samples) :
                                          n \in 1 .. Len(ps.tones_samples) }
                            IN CHOOSE m \in ls : \A l \in ls : l <= m
    IN IF max_samples = 0 THEN <<>> ELSE <<max_samples>>

(* ---------------------- main.rs: audio synthesizer --------------------- *)

\* NUM_NOTES of main
NUM_NOTES == 16

\* the envelope of the Space handler after the inner loop over one line.
\* The x and y of a line are window fractions; a frequency <<v>> stands for
\* 440 * 2^((value + 3) / 12) with v = value * 2 * SAMPLE_RATE * Den * Den
Main_RenderLine(samples, line) ==
    LET min == IF line.start.x < line.end.x THEN line.start ELSE line.end
        max == IF line.start.x > line.end.x THEN line.start ELSE line.end
        skip == AsUsize(min.x * SAMPLE_RATE, Den)
        take == AsUsize((max.x - min.x) * SAMPLE_RATE, Den) + 1
        value(i) == NUM_NOTES * ( 2 * SAMPLE_RATE * Den * Den
                                  - 2 * SAMPLE_RATE * Den * min.y
                                  + 2 * (max.y - min.y) * (i * Den - min.x * SAMPLE_RATE) )
                    + SAMPLE_RATE * Den * Den
    IN [n \in 1 .. Len(samples) |->
          LET i == n - 1
          IN IF i >= skip /\ i < skip + take
             THEN [frequency |-> <<value(i)>>, amplitude |-> AMPLITUDE]
             ELSE samples[n]]

RECURSIVE Main_RenderLines(_, _)
\* the Space handler: for line in lines { ... }
Main_RenderLines(samples, lines) ==
    IF lines = <<>> THEN samples
    ELSE Main_RenderLines(Main_RenderLine(samples, Head(lines)), Tail(lines))

\* the Space handler: the PlayerSource built from canvas.get_lines(), one
\* envelope of SAMPLE_RATE entries (one second) per stroke
Main_render(lines) ==
    PlayerSource_new(
        [s \in 1 .. Len(lines) |->
            ToneSamples_new(Main_RenderLines([n \in 1 .. SAMPLE_RATE |-> SilentTone], lines[s]))],
        SAMPLE_RATE)

\* main.rs ToneSamples::next: the producer after the call and the returned
\* f32.  The 0.0 returned at the end of the envelope is the pair <<<<>>, 0>>
Main_ToneSamples_next(t) ==
    LET tone == t.samples[t.i + 1]
        sample == <<t.time, tone.amplitude>>
    IN IF t.i + 1 >= Len(t.samples)
       THEN [tone_samples |-> [t EXCEPT !.i = Len(t.samples) - 1], result |-> << <<>>, 0 >>]
       ELSE [tone_samples |-> [t EXCEPT !.i = t.i + 1, !.time = t.time \o tone.frequency],
             result |-> sample]

RECURSIVE Main_PlayerSource_mix(_, _, _)
\* main.rs PlayerSource::next: the loop over tones_samples from index n on
Main_PlayerSource_mix(tones, n, acc) ==
    IF n > Len(tones) THEN acc
    ELSE LET r == Main_ToneSamples_next(tones[n])
         IN Main_PlayerSource_mix(tones, n + 1,
              [tones_samples |-> Append(acc.tones_samples, r.tone_samples),
               sample |-> Append(acc.sample, r.result),
               accumulated_amplitude |-> acc.accumulated_amplitude
                                         + ToneSamples_last_amplitude(r.tone_samples)])

\* main.rs PlayerSource::next: always Some(sample)
Main_PlayerSource_next(ps) ==
    LET m == Main_PlayerSource_mix(ps.tones_samples, 1,
                 [tones_samples |-> <<>>, sample |-> <<>>, accumulated_amplitude |-> 0])
    IN [source |-> [ps EXCEPT !.tones_samples = m.tones_samples],
        result |-> << [sum |-> m.sample, divisor |-> m.accumulated_amplitude] >>]

(* ----------------------------- rodio::Sink ----------------------------- *)

\* The sink is the queue of the sources appended to it; the first one is the
\* one being played.

\* Sink::try_new
Sink_new == <<>>

\* Sink::stop: every source of the queue is dropped
Sink_stop(s) == <<>>

\* Sink::append
Sink_append(s, source) == Append(s, source)

\* Sink::empty
Sink_empty(s) == s = <<>>

\* the output thread asks the sink for one sample: the first source is asked
\* through next (its result is in r), and a source that returns None is
\* dropped from the queue
Sink_pull(s, r) ==
    IF r.result = <<>> THEN Tail(s) ELSE <<r.source>> \o Tail(s)

(* ------------------------ timeline.rs: Timeline ------------------------ *)

\* Instant::now() - timer one sample period later; times beyond MaxTime read
\* as MaxTime
Elapse(timer) == IF timer < MaxTime THEN timer + 1 ELSE MaxTime

\* Timeline::default(): the fields of the player.  player_timer holds
\* player_timer.elapsed(), player_duration the Duration, both in sample
\* periods
Timeline_default ==
    [record_system |-> RecordSystem_default, tone_system |-> ToneSystem_default,
     playing |-> FALSE, player_timer |-> 0, player_duration |-> 0]

\* Timeline::update_player with a fault: at the end of the duration the
\* timer is restarted and the playback goes on
Timeline_update_player_loop(t) ==
    IF t.playing
    THEN IF t.player_timer >= t.player_duration
         THEN [t EXCEPT !.player_timer = 0]
         ELSE t
    ELSE [t EXCEPT !.player_timer = 0]

\* Timeline::update_player with a fault: playback ends only after more than
\* the duration has elapsed
Timeline_update_player_late(t) ==
    IF t.playing
    THEN IF t.player_timer > t.player_duration
         THEN [t EXCEPT !.playing = FALSE, !.player_duration = 0]
         ELSE t
    ELSE [t EXCEPT !.player_timer = 0]

\* Timeline::update_player
Timeline_update_player(t) ==
    IF t.playing
    THEN IF t.player_timer >= t.player_duration
         THEN [t EXCEPT !.playing = FALSE, !.player_duration = 0]
         ELSE t
    ELSE [t EXCEPT !.player_timer = 0]

\* Timeline::play with a fault: the sink is not stopped before the append
Timeline_play_no_stop(t, s) ==
    LET audio == Timeline_render_audio(t.record_system)
        duration == PlayerSource_total_duration(audio)
    IN [timeline |-> [t EXCEPT !.playing = TRUE,
                               !.player_timer = 0,
                               !.player_duration = IF duration # <<>> THEN duration[1] ELSE @],
        sink |-> Sink_append(s, Timeline_render_audio(t.record_system))]

\* Timeline::play: the timeline and the sink after the call
Timeline_play(t, s) ==
    LET audio == Timeline_render_audio(t.record_system)
        duration == PlayerSource_total_duration(audio)
    IN [timeline |-> [t EXCEPT !.playing = TRUE,
                               !.player_timer = 0,
                               !.player_duration = IF duration # <<>> THEN duration[1] ELSE @],
        sink |-> Sink_append(Sink_stop(s), Timeline_render_audio(t.record_system))]

(* ------------------------------ state ---------------------------------- *)

VARIABLES
    program,        \* "paint" (main.rs with paint.rs) or "timeline" (timeline.rs)
    canvas,         \* paint.rs: the Canvas
    record_system,  \* timeline.rs: Timeline.record_system
    tone_system,    \* timeline.rs: Timeline.tone_system
    line_calls,     \* observer: the number of line / add_line calls made so far
    last_ops,       \* observer: the history operations called last
    gesture,        \* observer: only line/add_line calls since the last new_record
    scenario,       \* observer: "drawing" after new_record on an empty history and
                    \* add_line calls only, "undone" after the undo that follows
    playing,        \* timeline.rs: Timeline.playing
    player_timer,   \* timeline.rs: Timeline.player_timer.elapsed(), in sample periods
    player_duration,\* timeline.rs: Timeline.player_duration, in sample periods
    sink            \* the rodio Sink both programs play through

\* the state of the player
player_vars == <<playing, player_timer, player_duration, sink>>

vars == <<program, canvas, record_system, tone_system, line_calls, last_ops, gesture, scenario,
          player_vars>>

Init ==
    /\ program \in {"paint", "timeline"}
    /\ canvas \in IF program = "paint"
                  THEN { [Canvas_new(InitialSize[1], InitialSize[2]) EXCEPT !.texture.data = d] :
                           d \in UndefinedTextureData(InitialSize[1], InitialSize[2]) }
                  ELSE { Canvas_new(InitialSize[1], InitialSize[2]) }
    /\ record_system = RecordSystem_default
    /\ tone_system = ToneSystem_default
    /\ line_calls = 0
    /\ last_ops = "none"
    /\ gesture = FALSE
    /\ scenario = "none"
    /\ playing = Timeline_default.playing
    /\ player_timer = Timeline_default.player_timer
    /\ player_duration = Timeline_default.player_duration
    /\ sink = Sink_new

\* last_ops after the history operation op: the operation, together with the
\* operations before it in the sequences undo, redo and undo, new_record, redo
Remember(op) ==
    last_ops' = IF last_ops = "undo" /\ op = "redo" THEN "undo,redo"
                ELSE IF last_ops = "undo" /\ op = "new_record" THEN "undo,new_record"
                ELSE IF last_ops = "undo,new_record" /\ op = "redo" THEN "undo,new_record,redo"
                ELSE op

\* the observers after new_record on history h
ObserveNewRecord(h) ==
    /\ UNCHANGED line_calls
    /\ Remember("new_record")
    /\ gesture' = TRUE
    /\ scenario' = IF h = <<>> THEN "drawing" ELSE "none"

ObserveLine ==
    /\ line_calls < MaxLines
    /\ line_calls' = line_calls + 1
    /\ Remember("line")
    /\ UNCHANGED gesture
    /\ scenario' = IF scenario = "drawing" THEN "drawing" ELSE "none"

ObserveUndo ==
    /\ UNCHANGED line_calls
    /\ Remember("undo")
    /\ gesture' = FALSE
    /\ scenario' = IF scenario = "drawing" THEN "undone" ELSE "none"

ObserveRedo ==
    /\ UNCHANGED line_calls
    /\ Remember("redo")
    /\ gesture' = FALSE
    /\ scenario' = "none"

(* ----------------------- paint program (main.rs) ----------------------- *)

PaintNewRecord ==
    /\ program = "paint"
    /\ Len(Canvas_new_record(canvas).history) <= MaxStrokes
    /\ canvas' = Canvas_new_record(canvas)
    /\ ObserveNewRecord(canvas.history)
    /\ UNCHANGED <<player_vars, program, record_system, tone_system>>

\* canvas.line called for one of the pointer moves
PaintLineOf(moves) ==
    /\ program = "paint"
    /\ ObserveLine
    /\ \E m \in moves : canvas' = Canvas_line(canvas, m[1], m[2])
    /\ UNCHANGED <<player_vars, program, record_system, tone_system>>

PaintLine == PaintLineOf(Moves(Points))

PaintUndo ==
    /\ program = "paint"
    /\ canvas' = Canvas_undo(canvas)
    /\ ObserveUndo
    /\ UNCHANGED <<player_vars, program, record_system, tone_system>>

PaintRedo ==
    /\ program = "paint"
    /\ canvas' = Canvas_redo(canvas)
    /\ ObserveRedo
    /\ UNCHANGED <<player_vars, program, record_system, tone_system>>

PaintResize ==
    /\ program = "paint"
    /\ \E size \in Sizes : canvas' = Canvas_resize(canvas, size[1], size[2])
    /\ UNCHANGED <<player_vars, program, record_system, tone_system, line_calls, last_ops, gesture, scenario>>

PaintUpdate ==
    /\ program = "paint"
    /\ canvas' = Canvas_update(canvas)
    /\ UNCHANGED <<player_vars, program, record_system, tone_system, line_calls, last_ops, gesture, scenario>>

(* --------------------- timeline program (timeline.rs) ------------------ *)

TimelineNewRecord ==
    /\ program = "timeline"
    /\ Len(RecordSystem_new_record(record_system).history) <= MaxStrokes
    /\ record_system' = RecordSystem_new_record(record_system)
    /\ ObserveNewRecord(record_system.history)
    /\ UNCHANGED <<player_vars, program, canvas, tone_system>>

\* add_line with a fault: the producers in the sink are not snapshots, they
\* take their envelopes from the history as it is now
TimelineAddLineOf_shared(moves) ==
    /\ program = "timeline"
    /\ \E m \in moves :
         LET r == RecordSystem_add_line(record_system, tone_system, m[1], m[2])
         IN /\ record_system' = r.record_system
            /\ tone_system' = r.tone_system
            /\ sink' = [n \in 1 .. Len(sink) |-> Timeline_render_audio(r.record_system)]
    /\ ObserveLine
    /\ UNCHANGED <<playing, player_timer, player_duration, program, canvas>>

\* add_line called for one of the pointer moves
TimelineAddLineOf(moves) ==
    /\ program = "timeline"
    /\ \E m \in moves :
         LET r == RecordSystem_add_line(record_system, tone_system, m[1], m[2])
         IN /\ record_system' = r.record_system
            /\ tone_system' = r.tone_system
    /\ ObserveLine
    /\ UNCHANGED <<player_vars, program, canvas>>

TimelineAddLine == TimelineAddLineOf(Moves(Points))

TimelineUndo ==
    /\ program = "timeline"
    /\ LET r == RecordSystem_undo(record_system, tone_system)
       IN /\ record_system' = r.record_system
          /\ tone_system' = r.tone_system
    /\ ObserveUndo
    /\ UNCHANGED <<player_vars, program, canvas>>

TimelineRedo ==
    /\ program = "timeline"
    /\ LET r == RecordSystem_redo(record_system, tone_system)
       IN /\ record_system' = r.record_system
          /\ tone_system' = r.tone_system
    /\ ObserveRedo
    /\ UNCHANGED <<player_vars, program, canvas>>

TimelineToneUpdate ==
    /\ program = "timeline"
    /\ tone_system' = ToneSystem_update(tone_system, record_system)
    /\ UNCHANGED <<player_vars, program, canvas, record_system, line_calls, last_ops, gesture, scenario>>

Next ==
    \/ PaintNewRecord
    \/ PaintLine
    \/ PaintUndo
    \/ PaintRedo
    \/ PaintResize
    \/ PaintUpdate
    \/ TimelineNewRecord
    \/ TimelineAddLine
    \/ TimelineUndo
    \/ TimelineRedo
    \/ TimelineToneUpdate

\* the drawing operations of both programs, nothing being played
Spec == Init /\ [][Next]_vars

(* ------------------------------ playback ------------------------------- *)

\* the Timeline object held in the state
TimelineOf ==
    [record_system |-> record_system, tone_system |-> tone_system,
     playing |-> playing, player_timer |-> player_timer, player_duration |-> player_duration]

\* the Space handler of main: the sink after it (sink_timer, which it
\* resets, only places the play line on the screen)
Main_space(c, s) == Sink_append(Sink_stop(s), Main_render(Canvas_get_lines(c)))

\* the drawing variables and the observers
drawing_vars ==
    <<program, canvas, record_system, tone_system, line_calls, last_ops, gesture, scenario>>

PlayerLine == PaintLineOf(PlayerMoves)

PlayerAddLine == TimelineAddLineOf(PlayerMoves)

\* Timeline::play
TimelinePlay ==
    /\ program = "timeline"
    /\ LET r == Timeline_play(TimelineOf, sink)
       IN /\ record_system' = r.timeline.record_system
          /\ tone_system' = r.timeline.tone_system
          /\ playing' = r.timeline.playing
          /\ player_timer' = r.timeline.player_timer
          /\ player_duration' = r.timeline.player_duration
          /\ sink' = r.sink
    /\ UNCHANGED <<program, canvas, line_calls, last_ops, gesture, scenario>>

\* Timeline::update: update_player
TimelineUpdatePlayer ==
    /\ program = "timeline"
    /\ LET t == Timeline_update_player(TimelineOf)
       IN /\ record_system' = t.record_system
          /\ tone_system' = t.tone_system
          /\ playing' = t.playing
          /\ player_timer' = t.player_timer
          /\ player_duration' = t.player_duration
    /\ UNCHANGED <<program, canvas, line_calls, last_ops, gesture, scenario, sink>>

\* main: the Space key was just pressed
PaintSpace ==
    /\ program = "paint"
    /\ sink' = Main_space(canvas, sink)
    /\ UNCHANGED <<drawing_vars, playing, player_timer, player_duration>>

\* one sample period passes
Tick ==
    /\ program = "timeline"
    /\ player_timer' = Elapse(player_timer)
    /\ UNCHANGED <<drawing_vars, playing, player_duration, sink>>

\* the output thread takes one sample from the sink
SinkPull ==
    /\ ~Sink_empty(sink)
    /\ sink' = Sink_pull(sink, IF program = "timeline"
                               THEN PlayerSource_next(Head(sink))
                               ELSE Main_PlayerSource_next(Head(sink)))
    /\ UNCHANGED <<drawing_vars, playing, player_timer, player_duration>>

PlayerNext ==
    \/ PaintNewRecord
    \/ PlayerLine
    \/ PaintUndo
    \/ PaintRedo
    \/ PaintSpace
    \/ TimelineNewRecord
    \/ PlayerAddLine
    \/ TimelineUndo
    \/ TimelineRedo
    \/ TimelineUpdatePlayer
    \/ TimelinePlay
    \/ Tick
    \/ SinkPull

\* both programs drawing with the pointer moves PlayerMoves and playing the
\* song while time passes and the output thread consumes it.  The steps of
\* Timeline::update that the player can see (undo / redo, update_player,
\* drawing) are taken one at a time in any order, which includes the order
\* of a frame; the upload of the lines mesh and of the bitmap and the resize
\* of the window are steps of Spec
PlayerSpec == Init /\ [][PlayerNext]_vars

\* The runs of PlayerSpec in which the main loop keeps calling
\* Timeline::update (update_player is called once per frame for as long as
\* the window is open) and the clock behind Instant::now() keeps advancing
PlayerLiveSpec ==
    /\ PlayerSpec
    /\ WF_vars(TimelineUpdatePlayer)
    /\ WF_vars(Tick)

(* --------------------------- shared notions ---------------------------- *)

\* the x values of the two endpoints of a line
XsOf(line) == {line.start.x, line.end.x}

\* the x values stored in a stroke
StrokeXs(stroke) == UNION { XsOf(stroke[n]) : n \in 1 .. Len(stroke) }

\* every line of the stroke lies at or beyond all x values of the lines
\* stored before it, in direction dir
Monotone(stroke, dir) ==
    \A j \in 1 .. Len(stroke) : \A i \in 1 .. (j - 1) :
        \A x \in XsOf(stroke[j]) : \A w \in XsOf(stroke[i]) :
            IF dir = "Right" THEN x >= w ELSE x <= w

TimeMonotone(stroke) == Monotone(stroke, "Right") \/ Monotone(stroke, "Left")

\* the bitmap obtained by clearing and replaying history through draw_line
ReplayedData(c) ==
    Canvas_draw_lines([c EXCEPT !.data = ZeroData(c.width, c.height)], Flatten(c.history)).data

RECURSIVE PlayerSource_samples(_, _)
\* the samples next() yields until it first returns None (at most fuel of them)
PlayerSource_samples(ps, fuel) ==
    LET r == PlayerSource_next(ps)
    IN IF r.result = <<>> \/ fuel = 0 THEN <<>>
       ELSE r.result \o PlayerSource_samples(r.source, fuel - 1)

\* the longest envelope of a source
MaxEnvelope(ps) ==
    IF ps.tones_samples = <<>> THEN 0
    ELSE LET ls == { Len(ps.tones_samples[n].samples) : n \in 1 .. Len(ps.tones_samples) }
         IN CHOOSE m \in ls : \A l \in ls : l <= m

(* ------------------------------- claims -------------------------------- *)

\* C1: after any sequence of new_record, line / add_line, undo and redo,
\* every stroke in history is time-monotone: in one direction, every line
\* lies at or beyond the x values of all earlier lines of the stroke.
C1_StrokesTimeMonotone ==
    /\ \A n \in 1 .. Len(canvas.history) : TimeMonotone(canvas.history[n])
    /\ \A n \in 1 .. Len(record_system.history) : TimeMonotone(record_system.history[n])

\* C2: with a non-empty history, undo followed at once by redo restores
\* history and the redo stack exactly.
C2_UndoRedoRestores ==
    /\ canvas.history # <<>> =>
         LET r == Canvas_redo(Canvas_undo(canvas))
         IN r.history = canvas.history /\ r.undo_history = canvas.undo_history
    /\ record_system.history # <<>> =>
         LET u == RecordSystem_undo(record_system, tone_system)
             r == RecordSystem_redo(u.record_system, u.tone_system)
         IN /\ r.record_system.history = record_system.history
            /\ r.record_system.undo_history = record_system.undo_history

\* a redo right after an undo has run, on a history with a drawn stroke and
\* with another stroke waiting on the redo stack
C2_Witness ==
    /\ program = "timeline"
    /\ last_ops = "undo,redo"
    /\ record_system.history # <<>> /\ Last(record_system.history) # <<>>
    /\ record_system.undo_history # <<>> /\ Last(record_system.undo_history) # <<>>

\* C3: new_record always leaves the redo stack empty, so a redo after undo
\* and new_record changes nothing and does not bring the undone stroke back.
C3_NewRecordInvalidatesRedo ==
    /\ Canvas_new_record(canvas).undo_history = <<>>
    /\ LET n == Canvas_new_record(Canvas_undo(canvas))
       IN Canvas_redo(n) = n
    /\ RecordSystem_new_record(record_system).undo_history = <<>>
    /\ LET u == RecordSystem_undo(record_system, tone_system)
           n == RecordSystem_new_record(u.record_system)
           r == RecordSystem_redo(n, u.tone_system)
       IN r.record_system = n /\ r.tone_system = u.tone_system

\* undo of a drawn stroke, new_record, then redo have run: the first stroke
\* is still there, followed by the fresh empty one, and nothing came back
C3_Witness ==
    /\ program = "paint"
    /\ last_ops = "undo,new_record,redo"
    /\ line_calls = MaxLines
    /\ Len(canvas.history) = 2
    /\ Len(canvas.history[1]) = 1 /\ canvas.history[2] = <<>>
    /\ canvas.undo_history = <<>>

\* C4: after any sequence of Canvas operations the bitmap equals the bitmap
\* obtained by clearing it and replaying every line of history.
C4_BitmapIsReplayOfHistory == canvas.data = ReplayedData(canvas)

\* C5: from any reachable Canvas state, resizing to another resolution and
\* back yields the same bitmap and leaves history unchanged.
C5_ResizeRoundTrip ==
    \A size \in Sizes :
        LET r == Canvas_resize(Canvas_resize(canvas, size[1], size[2]), canvas.width, canvas.height)
        IN r.data = canvas.data /\ r.history = canvas.history

\* C6: line / add_line called while history holds no stroke changes nothing
\* (history, redo stack, direction and frontier, bitmap, dirty flags) and
\* returns no line.
C6_AddLineWithoutStrokeIsNoOp ==
    \A start \in Points : \A end \in Points :
        /\ canvas.history = <<>> => Canvas_line(canvas, start, end) = canvas
        /\ record_system.history = <<>> =>
             LET r == RecordSystem_add_line(record_system, tone_system, start, end)
             IN /\ r.record_system = record_system
                /\ r.tone_system = tone_system
                /\ r.result = <<>>

\* C7: undo on an empty history and redo on an empty redo stack change
\* nothing; otherwise undo moves exactly the last stroke of history onto the
\* redo stack and redo moves exactly the top of the redo stack to the end of
\* history.
C7_UndoRedoMoveOneStroke ==
    /\ LET u == Canvas_undo(canvas)
           r == Canvas_redo(canvas)
       IN /\ canvas.history = <<>> => u = canvas
          /\ canvas.undo_history = <<>> => r = canvas
          /\ canvas.history # <<>> =>
               /\ u.history = Front(canvas.history)
               /\ u.undo_history = Append(canvas.undo_history, Last(canvas.history))
          /\ canvas.undo_history # <<>> =>
               /\ r.history = Append(canvas.history, Last(canvas.undo_history))
               /\ r.undo_history = Front(canvas.undo_history)
    /\ LET u == RecordSystem_undo(record_system, tone_system)
           r == RecordSystem_redo(record_system, tone_system)
           unchanged == [record_system |-> record_system, tone_system |-> tone_system]
       IN /\ record_system.history = <<>> => u = unchanged
          /\ record_system.undo_history = <<>> => r = unchanged
          /\ record_system.history # <<>> =>
               /\ u.record_system.history = Front(record_system.history)
               /\ u.record_system.undo_history
                    = Append(record_system.undo_history, Last(record_system.history))
          /\ record_system.undo_history # <<>> =>
               /\ r.record_system.history
                    = Append(record_system.history, Last(record_system.undo_history))
               /\ r.record_system.undo_history = Front(record_system.undo_history)

\* two drawn strokes were undone and redo has brought both back in order
C7_Witness ==
    /\ program = "timeline"
    /\ last_ops = "redo"
    /\ Len(record_system.history) = 2
    /\ record_system.history[1] # <<>> /\ record_system.history[2] # <<>>
    /\ record_system.history[1] # record_system.history[2]
    /\ record_system.undo_history = <<>>

\* C8: new_record removes the last stroke if it is empty, appends a fresh
\* empty stroke, clears the redo stack and resets the direction; strokes
\* with at least one line keep position and content.
C8_NewRecord ==
    /\ LET n == Canvas_new_record(canvas)
           h == canvas.history
       IN /\ Len(n.history) = IF h # <<>> /\ Last(h) = <<>> THEN Len(h) ELSE Len(h) + 1
          /\ Last(n.history) = <<>>
          /\ n.undo_history = <<>>
          /\ n.current_rc.direction = "Undefined"
          /\ \A i \in 1 .. Len(h) : h[i] # <<>> => n.history[i] = h[i]
    /\ LET n == RecordSystem_new_record(record_system)
           h == record_system.history
       IN /\ Len(n.history) = IF h # <<>> /\ Last(h) = <<>> THEN Len(h) ELSE Len(h) + 1
          /\ Last(n.history) = <<>>
          /\ n.undo_history = <<>>
          /\ n.current.direction = "Undefined"
          /\ \A i \in 1 .. Len(h) : h[i] # <<>> => n.history[i] = h[i]

\* new_record has run on a history whose drawn stroke stays first
C8_Witness ==
    /\ program = "paint"
    /\ last_ops = "new_record"
    /\ Len(canvas.history) = 2
    /\ Len(canvas.history[1]) = MaxLines /\ canvas.history[2] = <<>>
    /\ canvas.current_rc.direction = "Undefined"

\* C9: within one gesture (new_record followed by line / add_line calls
\* only), once a forward stroke has stored a line reaching x = f, every later
\* call stores both x values >= f whatever the input; symmetrically <= the
\* smallest x in a backward stroke.
C9_GestureNeverRegresses ==
    gesture =>
        /\ canvas.history # <<>> /\ Last(canvas.history) # <<>> =>
             /\ canvas.current_rc.direction \in {"Right", "Left"}
             /\ Monotone(Last(canvas.history), canvas.current_rc.direction)
             /\ \A start \in Points : \A end \in Points :
                  LET line == Last(Last(Canvas_line(canvas, start, end).history))
                  IN \A x \in XsOf(line) : \A f \in StrokeXs(Last(canvas.history)) :
                       IF canvas.current_rc.direction = "Right" THEN x >= f ELSE x <= f
        /\ record_system.history # <<>> /\ Last(record_system.history) # <<>> =>
             /\ record_system.current.direction \in {"Right", "Left"}
             /\ Monotone(Last(record_system.history), record_system.current.direction)
             /\ \A start \in Points : \A end \in Points :
                  LET r == RecordSystem_add_line(record_system, tone_system, start, end)
                      line == Last(Last(r.record_system.history))
                  IN /\ r.result = <<line>>
                     /\ \A x \in XsOf(line) : \A f \in StrokeXs(Last(record_system.history)) :
                          IF record_system.current.direction = "Right" THEN x >= f ELSE x <= f

\* a forward gesture reached x = 3/Den and was then dragged back to 1/Den:
\* the second line is stored with both x values at 3/Den
C9_Witness ==
    /\ program = "timeline"
    /\ gesture
    /\ record_system.current = [direction |-> "Right", clamp_x |-> 3]
    /\ Last(record_system.history)
         = << Line(Point2(0, 0), Point2(3, 1)), Line(Point2(3, 1), Point2(3, 2)) >>

\* C10: starting from an empty history, after new_record, any number of
\* line / add_line calls and then undo, the bitmap is entirely zero and the
\* rendered audio is empty or yields only 0 samples.
C10_DrawThenUndoLeavesNothing ==
    scenario = "undone" =>
        /\ program = "paint" => canvas.data = ZeroData(canvas.width, canvas.height)
        /\ program = "timeline" =>
             LET audio == Timeline_render_audio(record_system)
                 out == PlayerSource_samples(audio, MaxEnvelope(audio))
             IN \/ PlayerSource_next(audio).result = <<>>
                \/ \A n \in 1 .. Len(out) : IsZeroSample(out[n])

\* a stroke of two lines inside the canvas was drawn on an empty history and
\* undone
C10_Witness ==
    /\ program = "paint"
    /\ scenario = "undone"
    /\ canvas.history = <<>>
    /\ canvas.undo_history
         = << << Line(Point2(0, 0), Point2(3, 1)), Line(Point2(3, 1), Point2(3, 2)) >> >>

\* the entries of an envelope that are not silent
Loud(samples) == { n \in 1 .. Len(samples) : samples[n].amplitude # 0 }

\* a stroke of one forward line with the same pitch at both ends
FlatForward(stroke) ==
    /\ Len(stroke) = 1
    /\ stroke[1].start.x < stroke[1].end.x
    /\ stroke[1].start.y = stroke[1].end.y

RECURSIVE PlayerSource_after(_, _)
\* the source after n calls of next
PlayerSource_after(ps, n) ==
    IF n = 0 THEN ps ELSE PlayerSource_after(PlayerSource_next(ps).source, n - 1)

\* next of every stroke's producer returns None
AllExhausted(ps) ==
    \A n \in 1 .. Len(ps.tones_samples) : ToneSamples_next(ps.tones_samples[n]).result = <<>>

\* next returns None exactly when every stroke's producer does, and then
\* returns None on the call after it as well
EndsOnceAndForAll(ps) ==
    LET r == PlayerSource_next(ps)
    IN /\ (r.result = <<>>) <=> AllExhausted(ps)
       /\ r.result = <<>> => PlayerSource_next(r.source).result = <<>>

\* C12: the samples of the timeline.rs PlayerSource of any history are
\* finite: next returns None after at most max(envelope lengths) calls (on
\* the first call when there is no envelope), it returns None exactly when
\* every stroke's producer returned None on that call, and after a None every
\* later call returns None.
C12_PlayerSourceEnds ==
    LET audio == Timeline_render_audio(record_system)
        longest == MaxEnvelope(audio)
    IN /\ \E k \in 0 .. Max(longest - 1, 0) :
            PlayerSource_next(PlayerSource_after(audio, k)).result = <<>>
       /\ \A k \in 0 .. longest + 1 : EndsOnceAndForAll(PlayerSource_after(audio, k))
       /\ program = "timeline" => \A n \in 1 .. Len(sink) : EndsOnceAndForAll(sink[n])

\* the sink has taken every sample of a song of two strokes: the cursors
\* rest on the last entry and the next call returns None
C12_Witness ==
    /\ program = "timeline"
    /\ Len(sink) = 1
    /\ Len(sink[1].tones_samples) = 2
    /\ \A n \in 1 .. 2 : sink[1].tones_samples[n].i = Len(sink[1].tones_samples[n].samples) - 1
    /\ sink[1].tones_samples[1].time # <<>>
    /\ PlayerSource_next(sink[1]).result = <<>>

RECURSIVE Main_PlayerSource_after(_, _)
\* the main.rs source after n calls of next
Main_PlayerSource_after(ps, n) ==
    IF n = 0 THEN ps ELSE Main_PlayerSource_after(Main_PlayerSource_next(ps).source, n - 1)

\* an amplitude of 1.0 in the unit of AMPLITUDE
AMPLITUDE_UNIT == 100

RECURSIVE SumAmplitude(_)
\* the amplitudes of the terms sin(time) * amplitude of a sum, added up
SumAmplitude(sum) == IF sum = <<>> THEN 0 ELSE Head(sum)[2] + SumAmplitude(Tail(sum))

\* all terms of a sum were taken at the phase time
AllAtPhase(sum, time) == \A n \in 1 .. Len(sum) : sum[n][1] = time

\* The square of an output sample whose terms were all taken at one phase
\* t # 0 is sin(t)^2 * SquareNum / SquareDen: the sum is divided by
\* sqrt(divisor) only if divisor > 0.  The phases of the model are sums of at
\* most SAMPLE_RATE steps 2 * PI * frequency / 44100 with frequency below
\* 44100 / (2 * SAMPLE_RATE), so 0 < t < PI and sin(t) # 0
SquareNum(o) == SumAmplitude(o.sum) * SumAmplitude(o.sum)

SquareDen(o) ==
    IF o.divisor > 0 THEN AMPLITUDE_UNIT * o.divisor ELSE AMPLITUDE_UNIT * AMPLITUDE_UNIT

\* two results of next (<<>> is None) have the same magnitude; the terms of
\* both are taken at the phase of the first term of single
SameMagnitude(mixed, single) ==
    /\ (mixed = <<>>) <=> (single = <<>>)
    /\ single # <<>> =>
         LET time == single[1].sum[1][1]
         IN /\ AllAtPhase(mixed[1].sum, time) /\ AllAtPhase(single[1].sum, time)
            /\ time # <<>> =>
                 SquareNum(mixed[1]) * SquareDen(single[1])
                   = SquareNum(single[1]) * SquareDen(mixed[1])

\* C13: a stroke mixed with a second stroke of the same amplitude and the
\* same frequency over the same time range gives, at every sample, an output
\* of the same magnitude as the stroke mixed alone (mixed^2 = single^2).
C13_MixNotLouder ==
    /\ \A s \in 1 .. Len(record_system.history) :
         LET stroke == record_system.history[s]
             single == Timeline_render_audio([record_system EXCEPT !.history = <<stroke>>])
             mixed == Timeline_render_audio([record_system EXCEPT !.history = <<stroke, stroke>>])
         IN stroke # <<>> =>
              \A k \in 0 .. MaxEnvelope(single) :
                  SameMagnitude(PlayerSource_next(PlayerSource_after(mixed, k)).result,
                                PlayerSource_next(PlayerSource_after(single, k)).result)
    /\ \A s \in 1 .. Len(canvas.history) :
         LET stroke == canvas.history[s]
             single == Main_render(<<stroke>>)
             mixed == Main_render(<<stroke, stroke>>)
         IN stroke # <<>> =>
              \A k \in 0 .. SAMPLE_RATE :
                  SameMagnitude(Main_PlayerSource_next(Main_PlayerSource_after(mixed, k)).result,
                                Main_PlayerSource_next(Main_PlayerSource_after(single, k)).result)

\* a result of next with a summed amplitude of 0 is the sample 0.0 (with a
\* summed amplitude above 0 it is the sum divided by the square root of
\* that amplitude, which is what the pair sum, divisor stands for)
NormalisedOrZero(result) ==
    result # <<>> /\ result[1].divisor = 0 => IsZeroSample(result[1])

C15_OneProducer ==
    /\ Len(sink) <= 1
    /\ Timeline_play(TimelineOf, sink).sink = << Timeline_render_audio(record_system) >>
    /\ Main_space(canvas, sink) = << Main_render(Canvas_get_lines(canvas)) >>

\* a song was played (its duration is still stored), the history was emptied
\* and play was called again: the sink holds the producer of the second
\* play only
C15_Witness ==
    /\ program = "timeline"
    /\ playing
    /\ player_duration > 0
    /\ record_system.history = <<>>
    /\ sink = << Timeline_render_audio(record_system) >>

\* C16: playback is Idle (playing = FALSE) or Playing.  play makes it
\* Playing from either state and resets the timer; update_player makes
\* Playing Idle exactly when the time elapsed since the last play is >= the
\* stored duration and keeps Idle Idle; no other step changes the flag.
C16_PlaybackStates ==
    /\ [](/\ playing \in BOOLEAN
          /\ LET p == Timeline_play(TimelineOf, sink).timeline
             IN p.playing /\ p.player_timer = 0
          /\ LET u == Timeline_update_player(TimelineOf)
             IN IF playing THEN u.playing = ~(player_timer >= player_duration)
                ELSE ~u.playing)
    /\ [][playing' # playing => TimelinePlay \/ TimelineUpdatePlayer]_vars

\* a song was played and update_player has ended the playback after its
\* duration had elapsed, before the sink has taken all of it
C16_Witness ==
    /\ program = "timeline"
    /\ ~playing
    /\ Len(sink) = 1
    /\ MaxEnvelope(sink[1]) > 0
    /\ player_timer >= MaxEnvelope(sink[1])
    /\ player_duration = 0

\* the points draw_line is probed with: the pointer positions and a point
\* beyond each end of the y axis
ProbePoints == Points \cup { Point2(1, Den), Point2(2, -1) }

\* both coordinates of a point lie in [0, 1)
InCanvas(p) == p.x >= 0 /\ p.x < Den /\ p.y >= 0 /\ p.y < Den

\* the index in data of the pixel draw_line computes for a point
PixelOf(c, p) == Canvas_id(c, (p.x * c.width) \div Den, (p.y * c.height) \div Den)

\* C17: draw_line with a line that has any endpoint coordinate outside
\* [0, 1) changes neither the bitmap nor the dirty flag; with all four
\* coordinates inside [0, 1) it sets the start and the end pixel to 255 and
\* sets the dirty flag.
C17_DrawLineDropsOrDraws ==
    \A start \in ProbePoints : \A end \in ProbePoints :
        LET drawn == Canvas_draw_line(canvas, Line(start, end))
        IN IF InCanvas(start) /\ InCanvas(end)
           THEN /\ drawn.data[PixelOf(canvas, start)] = 255
                /\ drawn.data[PixelOf(canvas, end)] = 255
                /\ drawn.dirty
           ELSE drawn.data = canvas.data /\ drawn.dirty = canvas.dirty

\* a stroke of two lines was drawn, the second one ending on the right edge
\* (x = 1.0): the bitmap holds the pixels of the first line only
C17_Witness ==
    /\ program = "paint"
    /\ canvas.width = InitialSize[1] /\ canvas.height = InitialSize[2]
    /\ canvas.history
         = << << Line(Point2(0, 0), Point2(3, 1)), Line(Point2(3, 1), Point2(Den, 3)) >> >>
    /\ canvas.dirty
    /\ canvas.data
         = Canvas_draw_line(Canvas_new(InitialSize[1], InitialSize[2]),
                            Line(Point2(0, 0), Point2(3, 1))).data
    /\ canvas.data # ZeroData(canvas.width, canvas.height)

\* the content and size of the texture equal the bitmap
TextureShowsBitmap(c) ==
    c.texture = [width |-> c.width, height |-> c.height, data |-> c.data]

\* C18: Canvas::update uploads the bitmap only when the dirty flag is set
\* and uploads nothing otherwise; after it the dirty flag is false.
\* Consequently, after every update the texture content and size equal the
\* current bitmap.
C18_UpdateUploadsWhenDirty ==
    program = "paint" =>
    LET u == Canvas_update(canvas)
    IN /\ canvas.dirty => TextureShowsBitmap(u)
       /\ ~canvas.dirty => u.texture = canvas.texture
       /\ ~u.dirty
       /\ u.data = canvas.data /\ u.width = canvas.width /\ u.height = canvas.height
       /\ TextureShowsBitmap(u)

\* the strokes, the redo stack and the recording direction and frontier of
\* the canvas are the same in c and d
SameRecordingOfCanvas(c, d) ==
    /\ d.history = c.history
    /\ d.undo_history = c.undo_history
    /\ d.current_rc = c.current_rc

\* the player fields a Timeline can hold while the strokes are as in the state
PlayerStates ==
    { [TimelineOf EXCEPT !.playing = p, !.player_timer = e, !.player_duration = d] :
        p \in BOOLEAN, e \in {0, MaxTime}, d \in {0, MaxTime} }

\* C19: history and the redo stack are changed only by new_record, line /
\* add_line, undo and redo.  Canvas::resize, Canvas::update,
\* ToneSystem::update, render_audio, play and update_player leave history,
\* the redo stack and the recording direction and frontier as they were
\* (render_audio and ToneSystem::update borrow the record system immutably
\* and return the audio and the tone system only).
C19_OnlyHistoryOperationsChangeHistory ==
    /\ [](/\ \A size \in Sizes :
               SameRecordingOfCanvas(canvas, Canvas_resize(canvas, size[1], size[2]))
          /\ SameRecordingOfCanvas(canvas, Canvas_update(canvas))
          /\ ToneSystem_update(tone_system, record_system) \in
                { tone_system, [tones_lines_mesh |-> Flatten(record_system.history),
                               dirty |-> FALSE] }
          /\ \A t \in PlayerStates :
               /\ Timeline_play(t, sink).timeline.record_system = record_system
               /\ Timeline_update_player(t).record_system = record_system)
    /\ [][(\/ canvas.history' # canvas.history
           \/ canvas.undo_history' # canvas.undo_history
           \/ record_system.history' # record_system.history
           \/ record_system.undo_history' # record_system.undo_history)
          => (\/ PaintNewRecord \/ PaintLine \/ PaintUndo \/ PaintRedo
              \/ TimelineNewRecord \/ TimelineAddLine \/ TimelineUndo \/ TimelineRedo)]_vars
    /\ [][PaintResize \/ PaintUpdate \/ TimelineToneUpdate
          => /\ SameRecordingOfCanvas(canvas, canvas')
             /\ record_system' = record_system]_vars

\* the window was resized while a gesture is going on in a stroke that
\* holds a segment, with an undone stroke on the redo stack
C19_Witness ==
    /\ program = "paint"
    /\ <<canvas.width, canvas.height>> # InitialSize
    /\ canvas.history # <<>> /\ Last(canvas.history) # <<>>
    /\ canvas.undo_history # <<>>
    /\ canvas.current_rc.direction # "Undefined"
    /\ canvas.dirty

\* the segment a stroke in direction dir with frontier clamp_x stores for
\* the move from start to end
StoredLine(dir, clamp_x, start, end) ==
    IF dir = "Right"
    THEN Line(Point2(Max(start.x, clamp_x), start.y), Point2(Max(end.x, clamp_x), end.y))
    ELSE Line(Point2(Min(start.x, clamp_x), start.y), Point2(Min(end.x, clamp_x), end.y))

\* the frontier of a stroke in direction dir with frontier clamp_x after it
\* has stored line
FrontierAfter(dir, clamp_x, line) ==
    IF dir = "Right"
    THEN Max(clamp_x, Max(line.start.x, line.end.x))
    ELSE Min(clamp_x, Min(line.start.x, line.end.x))

\* history, direction and frontier of a record system or a canvas
Recording(history, current) ==
    [history |-> history, direction |-> current.direction, clamp_x |-> current.clamp_x]

\* history, direction, frontier and returned segment (<<>> where the
\* program returns nothing) after add_line / line on a history whose last
\* stroke exists, given history, direction and frontier before the call
AddsSegment(before, after, returned, start, end) ==
    LET dir == IF before.direction # "Undefined" THEN before.direction
               ELSE IF start.x < end.x THEN "Right" ELSE "Left"
        frontier == IF before.direction # "Undefined" THEN before.clamp_x
                    ELSE IF start.x < end.x THEN 0 ELSE INFINITY
        stored == StoredLine(dir, frontier, start, end)
    IN /\ after.direction = dir
       /\ stored.start.y = start.y /\ stored.end.y = end.y
       /\ before.direction = "Undefined" /\ start.x >= end.x => stored = Line(start, end)
       /\ Len(after.history) = Len(before.history)
       /\ Front(after.history) = Front(before.history)
       /\ Last(after.history) = Append(Last(before.history), stored)
       /\ returned \in { <<>>, <<stored>> }
       /\ after.clamp_x = FrontierAfter(dir, frontier, stored)

\* C20: add_line / line on a stroke whose direction is undefined makes it
\* forward with frontier 0 when start.x < end.x and backward with frontier
\* +infinity otherwise (start.x = end.x included).  The call stores the
\* segment whose x values are max(input x, frontier) forward and
\* min(input x, frontier) backward with both y values unchanged, appends it
\* as the last segment of the last stroke, returns it (add_line), and moves
\* the frontier to the max (forward) or min (backward) of the old frontier
\* and both stored x values.
C20_AddLineClampsAndAppends ==
    \A start \in ProbePoints : \A end \in ProbePoints :
        /\ record_system.history # <<>> =>
             LET r == RecordSystem_add_line(record_system, tone_system, start, end)
             IN /\ AddsSegment(Recording(record_system.history, record_system.current),
                               Recording(r.record_system.history, r.record_system.current),
                               r.result, start, end)
                /\ r.result # <<>>
                /\ r.result[1] = Last(Last(r.record_system.history))
        /\ canvas.history # <<>> =>
             LET c == Canvas_line(canvas, start, end)
             IN AddsSegment(Recording(canvas.history, canvas.current_rc),
                            Recording(c.history, c.current_rc), <<>>, start, end)

\* the first add_line of a stroke was called for a move to the right that
\* started left of the timeline: the stroke is forward, the stored segment
\* starts at x = 0 and the frontier is at its end
C20_Witness ==
    /\ program = "timeline"
    /\ gesture
    /\ record_system.history # <<>>
    /\ Last(record_system.history) = << Line(Point2(0, 1), Point2(3, 1)) >>
    /\ record_system.current = [direction |-> "Right", clamp_x |-> 3]

\* the divisor of a result of next is made of the amplitudes of the entries
\* its terms were computed from
DivisorOfPlayedEntries(result) ==
    result # <<>> => result[1].divisor = SumAmplitude(result[1].sum)

\* C21: for every output sample k of PlayerSource::next, the amplitude each
\* stroke adds to the divisor is the amplitude of the envelope entry (cursor
\* index k) its sample was computed from, not that of a neighbouring entry.
C21_DivisorFromPlayedEntry ==
    /\ LET audio == Timeline_render_audio(record_system)
       IN \A k \in 0 .. MaxEnvelope(audio) :
            DivisorOfPlayedEntries(PlayerSource_next(PlayerSource_after(audio, k)).result)
    /\ LET audio == Main_render(Canvas_get_lines(canvas))
       IN \A k \in 0 .. SAMPLE_RATE :
            DivisorOfPlayedEntries(Main_PlayerSource_next(Main_PlayerSource_after(audio, k)).result)

RECURSIVE ToneSamples_yield(_, _)
\* the samples ToneSamples::next yields until it first returns None (at
\* most fuel of them)
ToneSamples_yield(t, fuel) ==
    LET r == ToneSamples_next(t)
    IN IF r.result = <<>> \/ fuel = 0 THEN <<>>
       ELSE r.result \o ToneSamples_yield(r.tone_samples, fuel - 1)

\* a producer yields one sample per entry of its envelope, in the order of
\* the entries, each with the amplitude of its entry
YieldsEveryEntry(t) ==
    LET L == Len(t.samples)
        yield == ToneSamples_yield(t, L + 1)
    IN /\ Len(yield) = L
       /\ \A k \in 1 .. Min(L, Len(yield)) : yield[k][2] = t.samples[k].amplitude

\* C22: a timeline.rs ToneSamples over an envelope of length L yields one
\* sample for each envelope index 0 .. L-1 in increasing order, the sample
\* for index k being sin(phase) * amplitude[k], and returns None only when
\* the cursor has reached L, after exactly L samples.
C22_ProducerYieldsWholeEnvelope ==
    LET audio == Timeline_render_audio(record_system)
    IN \A n \in 1 .. Len(audio.tones_samples) : YieldsEveryEntry(audio.tones_samples[n])

\* the end of a line that render_audio takes as min and the one it takes as max
MinEnd(line) == IF line.start.x < line.end.x THEN line.start ELSE line.end

MaxEnd(line) == IF line.start.x > line.end.x THEN line.start ELSE line.end

\* the envelope length of render_audio for the lines all (not empty)
EnvelopeLength(all) == AsUsize(MaxX(all) * 60 * SAMPLE_RATE, player_bpm * Den) + 1

\* a silent envelope of the given length
Silence(length) == [n \in 1 .. length |-> SilentTone]

\* the bias + 0.5 of render_audio in the unit 1 / PitchScale, and the pitch y
\* of a point in that unit
PitchBias == SAMPLE_RATE * player_bpm * Den * Den

PitchOf(y) == 2 * SAMPLE_RATE * player_bpm * Den * y

\* The value render_audio gives entry i of a line lies on the straight line
\* through (min.x, min.y) and (max.x, max.y): with the time of entry i after
\* min.x and the time span both in the unit 1 / (SAMPLE_RATE * player_bpm * Den)
\* seconds,  (value - bias - min.y) * span = (max.y - min.y) * time
OnPitchLine(line, i, value) ==
    LET min == MinEnd(line)
        max == MaxEnd(line)
        time == i * player_bpm * Den - min.x * 60 * SAMPLE_RATE
        span == (max.x - min.x) * 60 * SAMPLE_RATE
    IN (value - PitchBias - PitchOf(min.y)) * span = (PitchOf(max.y) - PitchOf(min.y)) * time

\* the same for the envelope of main: x is in seconds, the pitch of y is
\* (1 - y) * NUM_NOTES, the unit of value is 1 / (2 * SAMPLE_RATE * Den * Den)
Main_PitchOf(y) == NUM_NOTES * 2 * SAMPLE_RATE * Den * (Den - y)

Main_OnPitchLine(line, i, value) ==
    LET min == MinEnd(line)
        max == MaxEnd(line)
        time == i * Den - min.x * SAMPLE_RATE
        span == (max.x - min.x) * SAMPLE_RATE
    IN (value - SAMPLE_RATE * Den * Den - Main_PitchOf(min.y)) * span
         = (Main_PitchOf(max.y) - Main_PitchOf(min.y)) * time

\* C23: for every segment with a non-zero time span, the pitch render_audio
\* interpolates is linear in time over the segment, with the value min.y at
\* time min.x and max.y at time max.x (before bias and offset are added),
\* whatever the length of the time span.
C23_PitchInterpolation ==
    /\ LET all == Flatten(record_system.history)
       IN \A l \in 1 .. Len(all) :
            all[l].start.x # all[l].end.x =>
              LET samples == RenderLine(Silence(EnvelopeLength(all)), all[l])
              IN \A n \in Loud(samples) : OnPitchLine(all[l], n - 1, samples[n].frequency[1])
    /\ LET all == Flatten(canvas.history)
       IN \A l \in 1 .. Len(all) :
            all[l].start.x # all[l].end.x =>
              LET samples == Main_RenderLine(Silence(SAMPLE_RATE), all[l])
              IN \A n \in Loud(samples) : Main_OnPitchLine(all[l], n - 1, samples[n].frequency[1])

\* floor(x / (bpm / 60) * SAMPLE_RATE) for x in units of 1 / Den
FloorSamples(x) == (x * 60 * SAMPLE_RATE) \div (player_bpm * Den)

\* entry i lies in the covered index range of line:
\* [floor(min.x * rate), floor(min.x * rate) + floor((max.x - min.x) * rate)]
InCoveredRange(i, line) ==
    LET min == MinEnd(line)
        max == MaxEnd(line)
    IN /\ i >= FloorSamples(min.x)
       /\ i <= FloorSamples(min.x) + FloorSamples(max.x - min.x)

\* an envelope is loud (amplitude 0.33, frequency not 0) exactly at the
\* entries in the covered range of a segment of stroke, and silent elsewhere
LoudWhereCovered(samples, stroke) ==
    \A n \in 1 .. Len(samples) :
        IF \E l \in 1 .. Len(stroke) : InCoveredRange(n - 1, stroke[l])
        THEN samples[n].amplitude = AMPLITUDE /\ samples[n].frequency # <<>>
        ELSE samples[n] = SilentTone

\* C24: in the envelope render_audio builds for a stroke, entry i has
\* amplitude 0.33 and a non-zero frequency exactly when i lies in the
\* covered index range of at least one segment of that stroke; every other
\* entry has frequency 0 and amplitude 0, and the segments of other strokes
\* never affect it.
C24_EnvelopeCoverage ==
    LET audio == Timeline_render_audio(record_system)
    IN \A s \in 1 .. Len(audio.tones_samples) :
         LoudWhereCovered(audio.tones_samples[s].samples, record_system.history[s])

\* the number of entries render_audio skips before a line, and the number
\* it then takes
SkipOf(line) == AsUsize(MinEnd(line).x * 60 * SAMPLE_RATE, player_bpm * Den)

TakeOf(line) ==
    AsUsize((MaxEnd(line).x - MinEnd(line).x) * 60 * SAMPLE_RATE, player_bpm * Den) + 1

\* C25: in one render_audio call every stroke's envelope has the same
\* length floor(M / (bpm / 60) * SAMPLE_RATE) + 1 >= 1, M being the largest
\* endpoint x of all segments of all strokes, and the entries covered by
\* every segment of every stroke lie inside the envelope (none is cut off
\* at the end); when history holds no segment at all, no envelope and no
\* per-stroke producer is created.
C25_EnvelopeLength ==
    LET all == Flatten(record_system.history)
        audio == Timeline_render_audio(record_system)
    IN IF all = <<>> THEN audio.tones_samples = <<>>
       ELSE LET length == FloorSamples(MaxX(all)) + 1
            IN /\ length >= 1
               /\ Len(audio.tones_samples) = Len(record_system.history)
               /\ \A s \in 1 .. Len(audio.tones_samples) :
                    Len(audio.tones_samples[s].samples) = length
               /\ \A l \in 1 .. Len(all) :
                    /\ FloorSamples(MinEnd(all[l]).x)
                         + FloorSamples(MaxEnd(all[l]).x - MinEnd(all[l]).x) < length
                    /\ SkipOf(all[l]) + TakeOf(all[l]) <= length

\* a line that is vertical in time
Vertical(line) == line.start.x = line.end.x

\* the loop of render_audio over line writes exactly one entry of a silent
\* envelope, with the frequency of the pitch of one end of the line
WritesOneInstant(line, length) ==
    LET samples == RenderLine(Silence(length), line)
    IN /\ Cardinality(Loud(samples)) = 1
       /\ \A n \in Loud(samples) :
            samples[n].frequency \in { << PitchOf(line.start.y) + PitchBias >>,
                                       << PitchOf(line.end.y) + PitchBias >> }

\* C26: a segment that is vertical in time (start.x = end.x) is treated as
\* a single instant: it covers exactly one envelope entry, whose frequency
\* is a finite value computed from the pitch of one end, and nothing is
\* divided by the zero time span.
C26_VerticalSegmentIsOneInstant ==
    LET all == Flatten(record_system.history)
    IN \A l \in 1 .. Len(all) :
         Vertical(all[l]) => WritesOneInstant(all[l], EnvelopeLength(all))

\* a forward stroke was turned back at x = 3/Den, which stored a vertical
\* segment between two pitches, and play has rendered it
C26_Witness ==
    /\ program = "timeline"
    /\ playing
    /\ sink = << Timeline_render_audio(record_system) >>
    /\ \E s \in 1 .. Len(record_system.history) :
         \E l \in 1 .. Len(record_system.history[s]) :
            /\ Vertical(record_system.history[s][l])
            /\ record_system.history[s][l].start.y # record_system.history[s][l].end.y

RECURSIVE PhaseOver(_, _)
\* the phase accumulated over the first k entries of an envelope: the sum
\* of their steps 2 * PI * frequency / 44100, silent entries adding nothing
PhaseOver(samples, k) ==
    IF k = 0 THEN <<>> ELSE PhaseOver(samples, k - 1) \o samples[k].frequency

RECURSIVE ToneSamples_after(_, _)
\* a timeline.rs producer after n calls of next
ToneSamples_after(t, n) ==
    IF n = 0 THEN t ELSE ToneSamples_after(ToneSamples_next(t).tone_samples, n - 1)

RECURSIVE Main_ToneSamples_after(_, _)
\* a main.rs producer after n calls of next
Main_ToneSamples_after(t, n) ==
    IF n = 0 THEN t ELSE Main_ToneSamples_after(Main_ToneSamples_next(t).tone_samples, n - 1)

\* the phase of a producer is the phase accumulated over the entries played
\* so far
PhaseOfPlayed(t) == t.time = PhaseOver(t.samples, t.i)

\* a fresh timeline.rs producer has phase 0; call k + 1 of next computes its
\* sample from the phase accumulated over the entries 0 .. k-1 and the
\* amplitude of entry k and then advances the phase by the step of entry k;
\* a call that returns None leaves the phase alone
ContinuousPhase(t) ==
    /\ t.time = <<>> /\ t.i = 0
    /\ \A k \in 0 .. Len(t.samples) :
         LET before == ToneSamples_after(t, k)
             r == ToneSamples_next(before)
         IN /\ PhaseOfPlayed(before)
            /\ IF r.result # <<>>
               THEN /\ r.result[1] = << PhaseOver(t.samples, k), t.samples[k + 1].amplitude >>
                    /\ r.tone_samples.time = before.time \o t.samples[k + 1].frequency
               ELSE r.tone_samples.time = before.time

\* the same for a main.rs producer, whose next returns 0.0 at the end
Main_ContinuousPhase(t) ==
    /\ t.time = <<>> /\ t.i = 0
    /\ \A k \in 0 .. Len(t.samples) :
         LET before == Main_ToneSamples_after(t, k)
             r == Main_ToneSamples_next(before)
         IN /\ PhaseOfPlayed(before)
            /\ IF k + 1 < Len(t.samples)
               THEN /\ r.result = << PhaseOver(t.samples, k), t.samples[k + 1].amplitude >>
                    /\ r.tone_samples.time = before.time \o t.samples[k + 1].frequency
               ELSE r.tone_samples.time = before.time

\* C27: within one render pass the phase of a stroke is never reset and
\* never decreases: it starts at 0, each produced sample advances it by
\* 2 * PI * frequency[cursor] / 44100 for the entry just played, it stays
\* the same across silent entries, and the sample at index k is computed
\* from the phase accumulated over the entries 0 .. k-1 only.
C27_ContinuousPhase ==
    /\ LET audio == Timeline_render_audio(record_system)
       IN \A n \in 1 .. Len(audio.tones_samples) : ContinuousPhase(audio.tones_samples[n])
    /\ LET audio == Main_render(Canvas_get_lines(canvas))
       IN \A n \in 1 .. Len(audio.tones_samples) : Main_ContinuousPhase(audio.tones_samples[n])
    /\ \A n \in 1 .. Len(sink) :
         \A m \in 1 .. Len(sink[n].tones_samples) : PhaseOfPlayed(sink[n].tones_samples[m])

\* the sink has played two loud entries of a stroke: its phase holds the
\* steps of both
C27_Witness ==
    /\ program = "timeline"
    /\ Len(sink) = 1
    /\ Len(sink[1].tones_samples) >= 1
    /\ sink[1].tones_samples[1].i = 2
    /\ Len(sink[1].tones_samples[1].time) = 2

\* C28: after every play, also one issued while Playing and one on an
\* empty history, the stored duration is the total duration of the audio
\* just handed to the sink, max(envelope lengths) / sample_rate (zero when
\* the audio is empty); the duration of an earlier playback is never used
\* for a later one.
C28_DurationOfSubmittedAudio ==
    program = "timeline" =>
        LET r == Timeline_play(TimelineOf, sink)
        IN /\ Len(r.sink) = 1
           /\ r.timeline.player_duration = MaxEnvelope(r.sink[1])

\* C29: once Playing, if update keeps being called, time advances and no
\* further play is issued, playback eventually becomes Idle and the stored
\* duration is zero again; playback never stays Playing forever.
C29_PlaybackEnds ==
    <>[][~TimelinePlay]_vars => (playing ~> (~playing /\ player_duration = 0))

\* a song of three sample periods was played to its end: the sink has taken
\* all of it and update_player has made the playback Idle
C29_Witness ==
    /\ program = "timeline"
    /\ ~playing
    /\ player_duration = 0
    /\ player_timer = MaxTime
    /\ sink = <<>>
    /\ MaxEnvelope(Timeline_render_audio(record_system)) = MaxTime

RECURSIVE Main_PlayerSource_samples(_, _)
\* the first fuel samples of a main.rs source, which never returns None
Main_PlayerSource_samples(ps, fuel) ==
    LET r == Main_PlayerSource_next(ps)
    IN IF fuel = 0 THEN <<>>
       ELSE r.result \o Main_PlayerSource_samples(r.source, fuel - 1)

\* the samples a producer in the sink will still yield; the timeline.rs
\* producer is exhausted after them
Remaining(ps) ==
    IF program = "timeline" THEN PlayerSource_samples(ps, MaxEnvelope(ps) + 1)
    ELSE Main_PlayerSource_samples(ps, SAMPLE_RATE + 1)

\* a step of new_record, line / add_line, undo or redo on the control thread
HistoryStep ==
    \/ PaintNewRecord \/ PlayerLine \/ PaintUndo \/ PaintRedo
    \/ TimelineNewRecord \/ PlayerAddLine \/ TimelineUndo \/ TimelineRedo

\* C30: a producer built by render_audio is a snapshot.  A new_record,
\* add_line, undo or redo made after the producer was handed to the sink,
\* interleaved in any way with the next calls of the sink, changes no sample
\* the producer yields and not the point at which it is exhausted: every
\* such step leaves the samples still to come as they were, and every next
\* call of the sink takes the first of them and leaves the others.
C30_ProducerIsSnapshot ==
    /\ [][HistoryStep =>
            /\ Len(sink') = Len(sink)
            /\ \A n \in 1 .. Len(sink) : Remaining(sink'[n]) = Remaining(sink[n])]_vars
    /\ [][SinkPull /\ program = "timeline" =>
            IF Remaining(sink[1]) = <<>> THEN sink' = Tail(sink)
            ELSE /\ Len(sink') = Len(sink)
                 /\ Remaining(sink'[1]) = Tail(Remaining(sink[1]))]_vars

\* a stroke was played and undone while the sink had taken one sample: the
\* history is empty and the producer in the sink still yields the stroke
C30_Witness ==
    /\ program = "timeline"
    /\ record_system.history = <<>>
    /\ Len(sink) = 1
    /\ Len(sink[1].tones_samples) = 1
    /\ sink[1].tones_samples[1].i = 1
    /\ Remaining(sink[1]) # <<>>
    /\ sink[1] # Timeline_render_audio(record_system)

(* --------------------------- the pixel loop ---------------------------- *)

\* the draw_line calls made in one run of DrawSpec
MaxDraws == 1

\* every point with both coordinates in [0, 1): on the initial bitmap of
\* Den x Den pixels each of them is a pixel of its own
GridPoints == { Point2(x, y) : x \in 0 .. Den - 1, y \in 0 .. Den - 1 }

\* draw_line called for a line between two points inside the canvas
DrawGridLine ==
    /\ program = "paint"
    /\ line_calls < MaxDraws
    /\ \E start \in GridPoints : \E end \in GridPoints :
         canvas' = Canvas_draw_line(canvas, Line(start, end))
    /\ line_calls' = line_calls + 1
    /\ UNCHANGED <<player_vars, program, record_system, tone_system, last_ops, gesture, scenario>>

\* the paint program after construction
DrawInit == Init /\ program = "paint"

DrawNext == DrawGridLine \/ PaintResize

\* draw_line applied to the fresh or resized bitmap of the paint program,
\* for every start and end point inside the canvas
DrawSpec == DrawInit /\ [][DrawNext]_vars

\* the walk of the loop of draw_line from pixel start to pixel end on a
\* bitmap of the given width, followed for twice the steps it may take
WalkOf(width, start, end) ==
    LET k == Canvas_draw_setup(width, start, end)
    IN Canvas_draw_walk(k, end, start.x, start.y, k.dx - k.dy, 2 * (k.dx + k.dy) + 2)

\* v lies between a and b
Between(v, a, b) == Min(a, b) <= v /\ v <= Max(a, b)

\* the loop from start to end terminates within dx + dy steps at the end
\* pixel, stays inside the bounding rectangle of start and end, and moves
\* by at most one pixel in x and in y per step
WalkIsLine(walk, start, end) ==
    /\ Last(walk) = end
    /\ Len(walk) <= Abs(end.x - start.x) + Abs(end.y - start.y) + 1
    /\ Head(walk) = start
    /\ \A n \in 1 .. Len(walk) :
         Between(walk[n].x, start.x, end.x) /\ Between(walk[n].y, start.y, end.y)
    /\ \A n \in 1 .. Len(walk) - 1 :
         Abs(walk[n + 1].x - walk[n].x) <= 1 /\ Abs(walk[n + 1].y - walk[n].y) <= 1

\* C31: for every pair of start and end pixels inside the bitmap the loop
\* of draw_line terminates, it ends having set the end pixel, every pixel
\* it sets lies inside the bounding rectangle of the start and end pixels
\* and is set to 255, consecutive visited pixels differ by at most one in x
\* and in y, and no pixel of the bitmap is lowered.
C31_DrawLoop ==
    \A p \in GridPoints : \A q \in GridPoints :
        LET start == Canvas_pixel(p, canvas.width, canvas.height)
            end == Canvas_pixel(q, canvas.width, canvas.height)
            walk == WalkOf(canvas.width, start, end)
            set == { Canvas_id(canvas, walk[n].x, walk[n].y) : n \in 1 .. Len(walk) }
            drawn == Canvas_draw_line(canvas, Line(p, q))
        IN /\ WalkIsLine(walk, start, end)
           /\ drawn.data[Canvas_id(canvas, end.x, end.y)] = 255
           /\ DOMAIN drawn.data = DOMAIN canvas.data
           /\ \A i \in DOMAIN canvas.data :
                /\ i \in set => drawn.data[i] = 255
                /\ i \notin set => drawn.data[i] = canvas.data[i]
                /\ drawn.data[i] >= canvas.data[i]

\* a diagonal was drawn on the initial bitmap from its last pixel back to
\* its first: both ends and the pixels between them are set
C31_Witness ==
    /\ program = "paint"
    /\ line_calls = 1
    /\ canvas.width = Den /\ canvas.height = Den
    /\ \A n \in 0 .. Den - 1 : canvas.data[Canvas_id(canvas, n, n)] = 255
    /\ Cardinality({ i \in DOMAIN canvas.data : canvas.data[i] = 255 }) = Den

(* ------------------------- C32: the dirty flag ------------------------- *)

\* the segment line (as stored in history) passes the range check of
\* draw_line
Drawable(line) == InCanvas(line.start) /\ InCanvas(line.end)

\* C32 (as stated): every Canvas operation that changes history
\* (new_record, line, undo, redo) or the bitmap size (resize) leaves the
\* dirty flag set.
C32_HistoryChangeSetsDirty ==
    program = "paint" =>
      /\ \A size \in Sizes : Canvas_resize(canvas, size[1], size[2]).dirty
      /\ \A op \in {"new_record", "undo", "redo"} :
           LET after == CASE op = "new_record" -> Canvas_new_record(canvas)
                          [] op = "undo" -> Canvas_undo(canvas)
                          [] op = "redo" -> Canvas_redo(canvas)
           IN after.history # canvas.history => after.dirty
      /\ \A m \in Moves(Points) :
           LET after == Canvas_line(canvas, m[1], m[2])
           IN after.history # canvas.history => after.dirty

\* C32 (amended): every Canvas operation that changes the bitmap or its
\* size leaves the dirty flag set, so the next update uploads the bitmap:
\* resize and an undo on a non-empty history always set it, new_record
\* changes neither the flag nor the bitmap, and line and redo set it
\* exactly when a segment they draw passes the range check of draw_line;
\* otherwise they leave the flag and the bitmap as they were.
C32_BitmapChangeSetsDirty ==
    program = "paint" =>
      /\ \A size \in Sizes :
           LET after == Canvas_resize(canvas, size[1], size[2])
           IN after.dirty /\ Canvas_update(after).texture.data = after.data
      /\ canvas.history # <<>> => Canvas_undo(canvas).dirty
      /\ canvas.history = <<>> => Canvas_undo(canvas) = canvas
      /\ LET after == Canvas_new_record(canvas)
         IN after.dirty = canvas.dirty /\ after.data = canvas.data
      /\ LET after == Canvas_redo(canvas)
             drawn == canvas.undo_history # <<>> /\
                      \E n \in DOMAIN Last(canvas.undo_history) :
                          Drawable(Last(canvas.undo_history)[n])
         IN /\ after.dirty = (canvas.dirty \/ drawn)
            /\ ~drawn => after.data = canvas.data
            /\ after.data # canvas.data => after.dirty
      /\ \A m \in Moves(Points) :
           LET after == Canvas_line(canvas, m[1], m[2])
               drawn == canvas.history # <<>> /\ Drawable(Last(Last(after.history)))
           IN /\ canvas.history # <<>> => after.dirty = (canvas.dirty \/ drawn)
              /\ ~drawn /\ canvas.history # <<>> => after.data = canvas.data
              /\ after.data # canvas.data => after.dirty

\* a stroke was started and a segment that fails the range check was added
\* to it: history has changed twice and the flag is still clear
C32_Witness ==
    /\ program = "paint"
    /\ last_ops = "line"
    /\ ~canvas.dirty
    /\ canvas.history # <<>>
    /\ Last(canvas.history) # <<>>
    /\ ~Drawable(Last(Last(canvas.history)))

(* ---------------------- C33: the end of the song ----------------------- *)

\* C33: the sample sequence of the main.rs producer terminates once the
\* longest envelope is exhausted: for every source the Space handler puts
\* into the sink, PlayerSource::next returns None within one call more
\* than the envelope has entries, so the sink becomes empty after playback.
C33_MainSourceEnds ==
    program = "paint" =>
        \A n \in 1 .. Len(sink) :
            \E k \in 0 .. SAMPLE_RATE + 1 :
                Main_PlayerSource_next(Main_PlayerSource_after(sink[n], k)).result = <<>>

(* --------------------- C34: undo and redo of strokes ------------------- *)

RECURSIVE Reversed(_)
\* a stack read from its top to its bottom
Reversed(stack) == IF stack = <<>> THEN <<>> ELSE <<Last(stack)>> \o Reversed(Front(stack))

\* history followed by the redo stack read from its top to its bottom
AllStrokes(h) == h.history \o Reversed(h.undo_history)

RECURSIVE Canvas_undos(_, _)
\* n calls of Canvas::undo
Canvas_undos(c, n) == IF n = 0 THEN c ELSE Canvas_undos(Canvas_undo(c), n - 1)

RECURSIVE Canvas_redos(_, _)
\* n calls of Canvas::redo
Canvas_redos(c, n) == IF n = 0 THEN c ELSE Canvas_redos(Canvas_redo(c), n - 1)

RECURSIVE RecordSystem_undos(_, _, _)
\* n calls of RecordSystem::undo
RecordSystem_undos(rs, ts, n) ==
    IF n = 0 THEN rs ELSE RecordSystem_undos(RecordSystem_undo(rs, ts).record_system, ts, n - 1)

RECURSIVE RecordSystem_redos(_, _, _)
\* n calls of RecordSystem::redo
RecordSystem_redos(rs, ts, n) ==
    IF n = 0 THEN rs ELSE RecordSystem_redos(RecordSystem_redo(rs, ts).record_system, ts, n - 1)

\* C34: undo and redo never create, delete, reorder or modify strokes:
\* history followed by the redo stack read from top to bottom is left
\* unchanged by every undo and every redo, in paint.rs and in timeline.rs,
\* so n undos followed by n redos (n at most the length of history)
\* restore history exactly.
C34_UndoRedoKeepStrokes ==
    /\ AllStrokes(Canvas_undo(canvas)) = AllStrokes(canvas)
    /\ AllStrokes(Canvas_redo(canvas)) = AllStrokes(canvas)
    /\ AllStrokes(RecordSystem_undo(record_system, tone_system).record_system)
         = AllStrokes(record_system)
    /\ AllStrokes(RecordSystem_redo(record_system, tone_system).record_system)
         = AllStrokes(record_system)
    /\ \A n \in 0 .. Len(canvas.history) :
         LET undone == Canvas_undos(canvas, n)
             redone == Canvas_redos(undone, n)
         IN /\ Len(undone.history) = Len(canvas.history) - n
            /\ redone.history = canvas.history
            /\ redone.undo_history = canvas.undo_history
    /\ \A n \in 0 .. Len(record_system.history) :
         LET undone == RecordSystem_undos(record_system, tone_system, n)
             redone == RecordSystem_redos(undone, tone_system, n)
         IN /\ Len(undone.history) = Len(record_system.history) - n
            /\ redone.history = record_system.history
            /\ redone.undo_history = record_system.undo_history

\* timeline.rs holds two different strokes of one segment each, the second
\* one undone: one in history and one on the redo stack
C34_Witness ==
    /\ program = "timeline"
    /\ last_ops = "undo"
    /\ Len(record_system.history) = 1
    /\ Len(record_system.undo_history) = 1
    /\ record_system.history[1] # <<>>
    /\ record_system.undo_history[1] # <<>>
    /\ record_system.history[1] # record_system.undo_history[1]

(* ------------------------- C35: empty strokes -------------------------- *)

\* the positions of the strokes without a segment
EmptyStrokes(strokes) == { n \in 1 .. Len(strokes) : strokes[n] = <<>> }

\* at most one stroke of history and the redo stack has no segment, and it
\* is the last of history followed by the redo stack read from its top;
\* no empty stroke of history comes before a non-empty one
OneEmptyStrokeAtEnd(h) ==
    LET all == AllStrokes(h)
    IN /\ Cardinality(EmptyStrokes(all)) <= 1
       /\ \A n \in EmptyStrokes(all) : n = Len(all)
       /\ \A i \in EmptyStrokes(h.history) :
            \A j \in i + 1 .. Len(h.history) : h.history[j] = <<>>

\* C35: after any sequence of new_record, line / add_line, undo and redo,
\* at most one stroke with zero segments exists in history and the redo
\* stack together, and it is the most recently started stroke, the last
\* element of history followed by the redo stack read top to bottom;
\* history never holds an empty stroke before a non-empty one.
C35_OneEmptyStroke ==
    /\ OneEmptyStrokeAtEnd(canvas)
    /\ OneEmptyStrokeAtEnd(record_system)

\* paint.rs after a stroke was drawn, the next one started and undone: the
\* empty stroke lies on the redo stack behind a stroke of history
C35_Witness ==
    /\ program = "paint"
    /\ last_ops = "undo"
    /\ Len(canvas.history) = 1
    /\ canvas.history[1] # <<>>
    /\ canvas.undo_history = << <<>> >>

(* ------------------ C36: the direction of the gesture ------------------ *)

\* the recording direction and frontier of the program that runs:
\* Canvas.current_rc or RecordSystem.current
CurrentRecord(c, rs) == IF program = "paint" THEN c.current_rc ELSE rs.current

\* a stroke was started at some time: new_record leaves a stroke in history
\* that only undo moves away, onto the redo stack
StrokeStarted(c, rs) ==
    IF program = "paint" THEN c.history # <<>> \/ c.undo_history # <<>>
    ELSE rs.history # <<>> \/ rs.undo_history # <<>>

\* C36: the recording direction and frontier belong to the gesture: undo
\* and redo leave them unchanged, only new_record resets the direction to
\* undefined, and the direction goes from undefined to forward or backward
\* only in a line / add_line call made after a new_record, the first one
\* after it (every such call leaves a direction), and then stays fixed
\* until the next new_record.
C36_DirectionBelongsToGesture ==
    [][ LET before == CurrentRecord(canvas, record_system)
            after == CurrentRecord(canvas', record_system')
            undo_redo == PaintUndo \/ PaintRedo \/ TimelineUndo \/ TimelineRedo
            new_record == PaintNewRecord \/ TimelineNewRecord
            line == PaintLine \/ TimelineAddLine
        IN /\ undo_redo => after = before
           /\ new_record => after.direction = "Undefined"
           /\ line => after.direction # "Undefined"
           /\ before.direction # "Undefined" /\ after.direction = "Undefined" => new_record
           /\ before.direction = "Undefined" /\ after.direction # "Undefined" =>
                line /\ StrokeStarted(canvas, record_system)
           /\ before.direction # "Undefined" /\ ~new_record =>
                after.direction = before.direction ]_vars

(* ---------------------- C37: the envelope cursor ----------------------- *)

\* the cursor of a producer indexes an entry of its envelope
CursorInRange(t) == 0 <= t.i /\ t.i < Len(t.samples)

\* next and last_amplitude called on producer t of timeline.rs: the cursor
\* indexes an entry before and after the call, and a call that returns None
\* is one made at rest on the last entry and leaves the producer as it was
NextKeepsCursor(t) ==
    /\ CursorInRange(t)
    /\ LET r == ToneSamples_next(t)
       IN /\ CursorInRange(r.tone_samples)
          /\ r.result = <<>> <=> t.i = Len(t.samples) - 1
          /\ r.result = <<>> => r.tone_samples.i = t.i /\ r.tone_samples.time = t.time

\* the same for a producer of main.rs, whose next signals the end of the
\* envelope by returning 0.0
Main_NextKeepsCursor(t) ==
    /\ CursorInRange(t)
    /\ LET r == Main_ToneSamples_next(t)
       IN /\ CursorInRange(r.tone_samples)
          /\ t.i = Len(t.samples) - 1 =>
               r.tone_samples.i = t.i /\ r.tone_samples.time = t.time

\* C37: for every producer render_audio (and the Space handler of main.rs)
\* can build and any number of next and last_amplitude calls, including
\* calls made after exhaustion, the cursor satisfies
\* 0 <= cursor < envelope length between calls, so the envelope is never
\* indexed out of range, and a call of next that signals exhaustion
\* changes neither the phase nor the resting value of the cursor.
C37_CursorInRange ==
    /\ LET fresh == Timeline_render_audio(record_system).tones_samples
       IN \A s \in 1 .. Len(fresh) : \A k \in 0 .. Len(fresh[s].samples) + 2 :
              NextKeepsCursor(ToneSamples_after(fresh[s], k))
    /\ LET fresh == Main_render(Canvas_get_lines(canvas)).tones_samples
       IN \A s \in 1 .. Len(fresh) : \A k \in 0 .. Len(fresh[s].samples) + 2 :
              Main_NextKeepsCursor(Main_ToneSamples_after(fresh[s], k))
    /\ \A n \in 1 .. Len(sink) : \A s \in 1 .. Len(sink[n].tones_samples) :
         IF program = "timeline" THEN NextKeepsCursor(sink[n].tones_samples[s])
         ELSE Main_NextKeepsCursor(sink[n].tones_samples[s])

\* the output thread has asked the source of main.rs for every entry of
\* the envelopes of two strokes: both producers rest on the last entry and
\* are called again with every further sample
C37_Witness ==
    /\ program = "paint"
    /\ Len(sink) = 1
    /\ Len(sink[1].tones_samples) = 2
    /\ \A s \in 1 .. 2 : sink[1].tones_samples[s].i = SAMPLE_RATE - 1
    /\ sink[1].tones_samples[1].time # <<>>

(* ------------------- C38: the bounds of the bitmap --------------------- *)

\* the sizes of a window that has no area: main hands the width and height
\* of the window to resize as they are
EmptySizes == { <<0, Den>>, <<Den, 0>>, <<0, 0>> }

\* the indices at which draw_line writes the bitmap of the given size for
\* a segment that passed its range check
WrittenIds(width, height, line) ==
    LET start == Canvas_pixel(line.start, width, height)
        end == Canvas_pixel(line.end, width, height)
        walk == WalkOf(width, start, end)
    IN { walk[n].y * width + walk[n].x : n \in 1 .. Len(walk) }

\* draw_line stays inside the bitmap of the given size for the segment
DrawsInside(width, height, line) ==
    Drawable(line) => \A id \in WrittenIds(width, height, line) : id \in 0 .. width * height - 1

\* C38: draw_line never indexes the bitmap outside 0 .. width * height - 1,
\* for every size resize can set, a width or height of zero included, and
\* every segment accepted by the [0,1) check: neither when resize replays
\* the segments of history on the new bitmap nor when line draws a new
\* segment on the bitmap the canvas has.
C38_DrawLineInBounds ==
    program = "paint" =>
      /\ \A p \in GridPoints : \A q \in GridPoints :
           DrawsInside(canvas.width, canvas.height, Line(p, q))
      /\ \A size \in Sizes \cup EmptySizes :
           \A n \in 1 .. Len(Flatten(canvas.history)) :
               DrawsInside(size[1], size[2], Flatten(canvas.history)[n])

(* ------------------------ C39: the lines mesh -------------------------- *)

\* an operation on the history that changes the concatenation of the
\* segments of its strokes leaves the ToneSystem marked dirty
ChangeMarksDirty(rs, r) ==
    Flatten(r.record_system.history) # Flatten(rs.history) => r.tone_system.dirty

\* C39: in timeline.rs, whenever the dirty flag of the ToneSystem is false
\* the line list last uploaded to the lines mesh equals the concatenation
\* of all segments of all strokes in history, in order; every add_line,
\* undo or redo that changes that concatenation sets the flag (new_record
\* never changes it), and ToneSystem::update re-uploads the list and clears
\* the flag.
C39_MeshFollowsHistory ==
    program = "timeline" =>
      /\ ~tone_system.dirty => tone_system.tones_lines_mesh = Flatten(record_system.history)
      /\ \A m \in Moves(ProbePoints) :
           ChangeMarksDirty(record_system,
                            RecordSystem_add_line(record_system, tone_system, m[1], m[2]))
      /\ ChangeMarksDirty(record_system, RecordSystem_undo(record_system, tone_system))
      /\ ChangeMarksDirty(record_system, RecordSystem_redo(record_system, tone_system))
      /\ Flatten(RecordSystem_new_record(record_system).history) = Flatten(record_system.history)
      /\ LET updated == ToneSystem_update(tone_system, record_system)
         IN /\ ~updated.dirty
            /\ updated.tones_lines_mesh = Flatten(record_system.history)

\* the segments of two strokes were uploaded, one stroke was undone and the
\* mesh was uploaded again: it holds the segment that is left
C39_Witness ==
    /\ program = "timeline"
    /\ ~tone_system.dirty
    /\ last_ops = "undo"
    /\ Len(record_system.history) = 1
    /\ Len(record_system.undo_history) = 1
    /\ record_system.undo_history[1] # <<>>
    /\ Len(tone_system.tones_lines_mesh) = 1
    /\ tone_system.tones_lines_mesh = record_system.history[1]

====
